---- MODULE Spec2Model ----
(***************************************************************************)
(* Checkpointed tenant -> CRM synchronizer (supabase/functions/sync_leases) *)
(* modelled as a state machine: the source table, the sync_state           *)
(* checkpoint row, the remote contact / opportunity store, and the serve   *)
(* handler split at its await points.                                      *)
(***************************************************************************)
EXTENDS Integers, Sequences, FiniteSets, TLC

\* ------------------------------------------------------------------ bounds
MaxTime == 2          \* timestamps and the wall clock range over 0..MaxTime
MaxRuns == 2          \* invocations of the handler per behaviour
NumTenants == 2       \* rows of public.tenants
MaxFaults == 2        \* failing calls and throwing rows per behaviour
MaxContacts == 4      \* contacts a bulk script run works through
MaxOpTicks == 3       \* longest remote operation of a bulk script, in ticks
RATE_LIMIT == 2       \* --rate: operations per minute (150 when not given)
BATCH_SIZE == 2       \* --batch-size (200 when not given)
SLEEP_MS == 1         \* --sleep between batches, in ticks (2000 ms when not given)
MINUTE_MS == 3        \* the 60000 ms window of the limiter, in ticks

\* ----------------------------------------------------------- value domains
NoTime == 0 - 1      \* a NULL timestamp column
Time == 0..MaxTime
TenantIds == 1..NumTenants
Runs == {"r1", "r2"}

\* first-run fallback "2000-01-01T00:00:00Z": the earliest instant of the model
EPOCH_FALLBACK == 0

\* the value of last_run_at when sync_state holds no row 'ghl_lease_sync'
NoCheckpointRow == NoTime

\* lines 11-16
criticalEnvVars ==
  {"SUPABASE_URL", "SUPABASE_SERVICE_ROLE_KEY", "GHL_API_KEY", "GHL_PIPELINE_ID"}

\* lines 35-42: the variables behind GHL.PIPELINE and GHL.STAGES
GhlIdVars ==
  {"GHL_PIPELINE_ID", "STAGE_NEW_INQUIRY_ID", "STAGE_NEEDS_SEARCH_ID",
   "STAGE_SEARCH_SENT_ID", "STAGE_BOOKED_2025_ID", "STAGE_BOOKED_2026_ID",
   "STAGE_PAST_GUEST_ID"}

\* line 34: the variable behind GHL.KEY_V2, the key ghlFetchV2 sends
KEY_V2_VAR == "GHL_API_V2_KEY"

EnvVars == criticalEnvVars \cup GhlIdVars \cup {KEY_V2_VAR}

CUSTOM_FIELD_IDS ==
  [TENANT_ID |-> "cf_tenant_id",
   SECONDARY_PHONE |-> "cf_secondary_phone",
   YEARLY_RENT_TOTALS |-> "cf_yearly_rent_totals_json",
   TOTAL_LIFETIME_RENT |-> "cf_total_lifetime_rent"]

GHL_STAGES ==
  [NEW_INQUIRY |-> "stage_new_inquiry",
   NEEDS_SEARCH |-> "stage_needs_search",
   SEARCH_SENT |-> "stage_search_sent",
   BOOKED_2025 |-> "stage_booked_2025",
   BOOKED_2026 |-> "stage_booked_2026",
   PAST_GUEST |-> "stage_past_guest"]

\* ------------------------------------------------------------ lib/phone.ts
\* A raw string is a sequence of one-character strings.
Digits == {"0", "1", "2", "3", "4", "5", "6", "7", "8", "9"}
Delims == {" ", "/", ";", ",", "|"}

RECURSIVE digitsOnly(_)
digitsOnly(s) ==
  IF s = <<>> THEN <<>>
  ELSE IF Head(s) \in Digits THEN <<Head(s)>> \o digitsOnly(Tail(s))
       ELSE digitsOnly(Tail(s))

slice(s, from, to) ==
  IF from >= Len(s) THEN <<>>
  ELSE SubSeq(s, from + 1, IF to < Len(s) THEN to ELSE Len(s))

startsWith1(s) == Len(s) > 0 /\ s[1] = "1"

BermanRaw == <<"+", "1", "8", "5", "6", "7", "8", "0", "5", "7", "5", "8", "6", "0", "9", "7">>
BermanFirst == <<"1", "8", "5", "6", "7", "8", "0", "5", "7", "5", "8">>
BermanSecond == <<"1", "6", "0", "9", "7", "7", "4", "4", "0", "7", "7">>

splitOk(digits, len) ==
  LET a == slice(digits, 0, len)
      b == slice(digits, len, Len(digits))
  IN  /\ (len = 10 \/ (len = 11 /\ startsWith1(a)))
      /\ (Len(b) = 10 \/ (Len(b) = 11 /\ startsWith1(b)))

\* returns <<first, second>>, or <<>> for null
maybeSplitConcatenated(raw) ==
  LET digits == digitsOnly(raw)
  IN  IF raw = BermanRaw THEN <<BermanFirst, BermanSecond>>
      ELSE IF splitOk(digits, 10)
             THEN <<slice(digits, 0, 10), slice(digits, 10, Len(digits))>>
      ELSE IF splitOk(digits, 11)
             THEN <<slice(digits, 0, 11), slice(digits, 11, Len(digits))>>
      ELSE <<>>

\* variant: a run of more than 15 digits is cut to 15 instead of dropped
toE164_truncating(d) ==
  IF Len(d) = 10 THEN <<"+", "1">> \o d
  ELSE IF Len(d) >= 10 THEN <<"+">> \o SubSeq(d, 1, IF Len(d) < 15 THEN Len(d) ELSE 15)
  ELSE <<>>

\* variant: ten digits get no country code
toE164_plusOnly(d) ==
  IF Len(d) >= 10 /\ Len(d) <= 15 THEN <<"+">> \o d ELSE <<>>

toE164(d) ==
  IF Len(d) = 10 THEN <<"+", "1">> \o d
  ELSE IF Len(d) = 11 /\ startsWith1(d) THEN <<"+">> \o d
  ELSE IF Len(d) >= 10 /\ Len(d) <= 15 THEN <<"+">> \o d
  ELSE <<>>

\* raw.split(/[\s/;,|]+/): the maximal runs of non-delimiter characters, with
\* an empty first (last) piece when the string starts (ends) with a delimiter
RECURSIVE splitOnDelims(_, _, _)
splitOnDelims(s, cur, inDelim) ==
  IF s = <<>> THEN <<cur>>
  ELSE IF Head(s) \in Delims
         THEN IF inDelim THEN splitOnDelims(Tail(s), cur, TRUE)
              ELSE <<cur>> \o splitOnDelims(Tail(s), <<>>, TRUE)
       ELSE splitOnDelims(Tail(s), cur \o <<Head(s)>>, FALSE)

RECURSIVE filterNonEmpty(_)
filterNonEmpty(ps) ==
  IF ps = <<>> THEN <<>>
  ELSE IF Head(ps) = <<>> THEN filterNonEmpty(Tail(ps))
       ELSE <<Head(ps)>> \o filterNonEmpty(Tail(ps))

RECURSIVE mapDigitsOnly(_)
mapDigitsOnly(ps) ==
  IF ps = <<>> THEN <<>> ELSE <<digitsOnly(Head(ps))>> \o mapDigitsOnly(Tail(ps))

\* variant: the delimiters are looked at before the concatenation detector
splitAndFormatPhones_delimitersFirst(raw) ==
  IF raw = <<>> THEN << <<>> >>
  ELSE LET parts == filterNonEmpty(mapDigitsOnly(splitOnDelims(raw, <<>>, FALSE)))
           primary == toE164(IF Len(parts) >= 1 THEN parts[1] ELSE <<>>)
           secondary == toE164(IF Len(parts) >= 2 THEN parts[2] ELSE <<>>)
           concat == maybeSplitConcatenated(raw)
       IN  IF Len(parts) >= 2
             THEN (IF secondary # <<>> THEN <<primary, secondary>> ELSE <<primary>>)
           ELSE IF concat # <<>> THEN <<toE164(concat[1]), toE164(concat[2])>>
           ELSE <<primary>>

\* returns <<primary>> or <<primary, secondary>>
splitAndFormatPhones(raw) ==
  IF raw = <<>> THEN << <<>> >>
  ELSE LET concat == maybeSplitConcatenated(raw)
       IN  IF concat # <<>> THEN <<toE164(concat[1]), toE164(concat[2])>>
           ELSE LET parts == filterNonEmpty(mapDigitsOnly(splitOnDelims(raw, <<>>, FALSE)))
                    primary == toE164(IF Len(parts) >= 1 THEN parts[1] ELSE <<>>)
                    secondary == toE164(IF Len(parts) >= 2 THEN parts[2] ELSE <<>>)
                IN  IF secondary # <<>> THEN <<primary, secondary>> ELSE <<primary>>

\* ------------------------------------------------------------ lib/utils.ts
\* A totals map is a function from year strings to amounts.
EmptyTotals == [y \in {} |-> 0]

RECURSIVE SumValues(_, _)
SumValues(f, ks) ==
  IF ks = {} THEN 0
  ELSE LET k == CHOOSE x \in ks : TRUE IN f[k] + SumValues(f, ks \ {k})

\* variant: the year's entry is replaced by the rent instead of increased by it
calculateRentTotals_overwrites(rent, year, existingTotals) ==
  LET totals == [y \in DOMAIN existingTotals \cup {year} |->
                   IF y = year THEN rent ELSE existingTotals[y]]
  IN  [yearlyTotals |-> totals,
       totalLifetimeRent |-> SumValues(totals, DOMAIN totals)]

calculateRentTotals(rent, year, existingTotals) ==
  LET totals == [y \in DOMAIN existingTotals \cup {year} |->
                   IF y = year
                     THEN (IF year \in DOMAIN existingTotals THEN existingTotals[year] ELSE 0) + rent
                     ELSE existingTotals[y]]
  IN  [yearlyTotals |-> totals,
       totalLifetimeRent |-> SumValues(totals, DOMAIN totals)]

\* ------------------------------------------------------------------- state
VARIABLES
  tenants,        \* public.tenants: tenant id -> row
  last_run_at,    \* sync_state.last_run_at of the row 'ghl_lease_sync'
  now,            \* the wall clock read by new Date()
  contacts,       \* remote CRM contacts, in creation order (id = position)
  opportunities,  \* remote CRM opportunities, in creation order
  run,            \* per invocation: the handler's locals and position
  runsStarted,    \* number of invocations so far
  faults,         \* number of failures injected so far
  overlap,        \* whether invocations may overlap (fixed per behaviour)
  missingEnv,     \* names of the environment variables that are not set
  fn,             \* a call of one of the library functions, and its result
  repair,         \* what the repair script wrote to public.tenants, and when
  legacy,         \* the legacy handler (index.ts): its row loop
  script          \* a bulk script: its rate limiter and the operations started

vars == <<tenants, last_run_at, now, contacts, opportunities, run, runsStarted,
          faults, overlap, missingEnv, fn,
                 repair, legacy, script>>

\* the repair script has not run
NoRepair == [done |-> FALSE, S |-> {}, runsBefore |-> 0, inFlight |-> {}, synced |-> {}]

\* the legacy handler before its loop
LegacyIdle == [pc |-> "idle", leases |-> <<>>, i |-> 0, processedTenants |-> <<>>,
               calls |-> <<>>]

\* a bulk script that was not started
ScriptIdle == [pc |-> "idle", name |-> "", clock |-> 0, minuteStartTime |-> 0,
               processedInThisMinute |-> 0, started |-> <<>>, i |-> 0, length |-> 0]

\* no library call under study
NoCall == [name |-> "", arg |-> <<>>, result |-> <<>>, done |-> FALSE]

IdleRun ==
  [pc |-> "idle", sinceISO |-> 0, leases |-> <<>>, i |-> 0,
   processedTenants |-> <<>>, existing |-> <<>>,
   contact |-> [email |-> "", phone |-> <<>>, customField |-> <<>>],
   response |-> [status |-> 0, text |-> ""], calls |-> <<>>,
   thrown |-> {}, writes |-> 0, oppsBefore |-> 0]

\* the row under the loop variable r
CurRow(p) == run[p].leases[run[p].i]

\* ------------------------------------------------ serve handler: pure parts
\* Number(r.rent ?? 0) for a rent given in decimal digits (the column holds a
\* number or its decimal text); the empty text gives 0
DigitValue(c) ==
  CASE c = "0" -> 0 [] c = "1" -> 1 [] c = "2" -> 2 [] c = "3" -> 3 [] c = "4" -> 4
    [] c = "5" -> 5 [] c = "6" -> 6 [] c = "7" -> 7 [] c = "8" -> 8 [] c = "9" -> 9

RECURSIVE Number(_)
Number(text) ==
  IF text = <<>> THEN 0
  ELSE 10 * Number(SubSeq(text, 1, Len(text) - 1)) + DigitValue(text[Len(text)])

\* r.check_in_date?.substring(0, 4); a date is <<yyyy, mm, dd>>, <<>> when
\* the column is NULL; "" stands for the undefined year
YearOf(r) == IF r.check_in_date = <<>> THEN "" ELSE r.check_in_date[1]

\* Number(year); a value that is not a number is NaN, which compares false
YearNumbers == [y \in {"2023", "2024", "2025", "2026", "2027"} |->
                  CASE y = "2023" -> 2023 [] y = "2024" -> 2024 [] y = "2025" -> 2025
                    [] y = "2026" -> 2026 [] y = "2027" -> 2027]
yearBelow2025(year) == year \in DOMAIN YearNumbers /\ YearNumbers[year] < 2025

\* lines 295-354: contact.phone and the secondary-phone custom field
PhoneFields(tp) ==
  LET none == [phone |-> <<>>, cf |-> <<>>]
      secEntry(v) == <<[id |-> CUSTOM_FIELD_IDS.SECONDARY_PHONE, value |-> v]>>
  IN  IF tp.kind = "null" THEN none
      ELSE IF tp.kind = "array"
        THEN IF Len(tp.items) = 0 THEN none
             ELSE LET ps == splitAndFormatPhones(tp.items[1])
                      pri == ps[1]
                      sec == IF Len(ps) >= 2 THEN ps[2] ELSE <<>>
                      cf1 == IF pri # <<>> /\ sec # <<>> THEN secEntry(sec) ELSE <<>>
                      second == IF Len(tp.items) > 1 /\ sec = <<>>
                                  THEN splitAndFormatPhones(tp.items[2])[1] ELSE <<>>
                      cf2 == IF second # <<>> THEN secEntry(second) ELSE <<>>
                  IN  [phone |-> pri, cf |-> cf1 \o cf2]
      ELSE IF tp.text = <<>> THEN none
           ELSE LET ps == splitAndFormatPhones(tp.text)
                    pri == ps[1]
                    sec == IF Len(ps) >= 2 THEN ps[2] ELSE <<>>
                IN  [phone |-> pri,
                     cf |-> IF sec # <<>> THEN secEntry(sec) ELSE <<>>]

\* lines 288-368: the draft contact before the rent totals are attached
DraftContact(r) ==
  LET pf == PhoneFields(r.tenant_phone)
  IN  [email |-> r.tenant_email,
       phone |-> pf.phone,
       customField |-> pf.cf \o <<[id |-> CUSTOM_FIELD_IDS.TENANT_ID, value |-> ToString(r.id)]>>]

\* variant: the status rules come before the year rules
selectStage_statusFirst(year, status) ==
  IF status = "needs_search" THEN GHL_STAGES.NEEDS_SEARCH
  ELSE IF status = "search_sent" THEN GHL_STAGES.SEARCH_SENT
  ELSE IF year = "2026" THEN GHL_STAGES.BOOKED_2026
  ELSE IF year = "2025" THEN GHL_STAGES.BOOKED_2025
  ELSE IF yearBelow2025(year) THEN GHL_STAGES.PAST_GUEST
  ELSE GHL_STAGES.NEW_INQUIRY

\* lines 499-506
selectStage(year, status) ==
  IF year = "2026" THEN GHL_STAGES.BOOKED_2026
  ELSE IF year = "2025" THEN GHL_STAGES.BOOKED_2025
  ELSE IF status = "needs_search" THEN GHL_STAGES.NEEDS_SEARCH
  ELSE IF status = "search_sent" THEN GHL_STAGES.SEARCH_SENT
  ELSE IF yearBelow2025(year) THEN GHL_STAGES.PAST_GUEST
  ELSE GHL_STAGES.NEW_INQUIRY

\* variant: only created_at is looked at
tenantTimestamp_createdOnly(t) == t.created_at

\* lines 586-595: the timestamp one processed tenant contributes
tenantTimestamp(t) ==
  IF t.last_scraped_at # NoTime /\ t.created_at # NoTime
    THEN IF t.last_scraped_at > t.created_at THEN t.last_scraped_at ELSE t.created_at
    ELSE IF t.last_scraped_at # NoTime THEN t.last_scraped_at ELSE t.created_at

RECURSIVE latestTimestamp(_, _)
latestTimestamp(processed, latest) ==
  IF processed = <<>> THEN latest
  ELSE LET ts == tenantTimestamp(Head(processed))
       IN  latestTimestamp(Tail(processed), IF ts > latest THEN ts ELSE latest)

\* lines 258-260: created_at.gte.since OR last_scraped_at.gte.since
IsCandidate(r, since) ==
  \/ r.created_at >= since
  \/ (r.last_scraped_at # NoTime /\ r.last_scraped_at >= since)

\* variant: the rows come in any order
CandidateLists_unordered(since) ==
  LET ids == {t \in DOMAIN tenants : IsCandidate(tenants[t], since)}
      n == Cardinality(ids)
  IN  {[k \in 1..n |-> tenants[f[k]]] :
         f \in {g \in [1..n -> ids] : \A a, b \in 1..n : a # b => g[a] # g[b]}}

\* .order("created_at", {ascending: true}); ties come in any order
CandidateLists(since) ==
  LET ids == {t \in DOMAIN tenants : IsCandidate(tenants[t], since)}
      n == Cardinality(ids)
  IN  {[k \in 1..n |-> tenants[f[k]]] :
         f \in {g \in [1..n -> ids] :
                  /\ \A a, b \in 1..n : a # b => g[a] # g[b]
                  /\ \A a, b \in 1..n : a < b =>
                        tenants[g[a]].created_at <= tenants[g[b]].created_at}}

\* ------------------------------------------------------- remote CRM (v2 API)
\* JSON.stringify / JSON.parse of a totals map: the string is a tagged value
JSONstringify(m) == [json |-> m]
JSONparse(v) == v.json

\* customFields.find(field => field.id === CUSTOM_FIELD_IDS.YEARLY_RENT_TOTALS)
HasTotalsField(fields) ==
  \E k \in DOMAIN fields : fields[k].id = CUSTOM_FIELD_IDS.YEARLY_RENT_TOTALS
TotalsField(fields) ==
  fields[CHOOSE k \in DOMAIN fields :
           /\ fields[k].id = CUSTOM_FIELD_IDS.YEARLY_RENT_TOTALS
           /\ \A j \in 1..(k - 1) : fields[j].id # CUSTOM_FIELD_IDS.YEARLY_RENT_TOTALS]

\* custom fields whose values the vendor's free-text search can match
CF_CONFIRMATION == "cf_confirmation"
TextFieldIds == {CUSTOM_FIELD_IDS.TENANT_ID, CF_CONFIRMATION}

FirstMatch(S) == IF S = {} THEN <<>>
                 ELSE <<contacts[CHOOSE c \in S : \A d \in S : c <= d]>>

\* GET /contacts/lookup?email=  ->  data.contacts[0] || null
ByEmail(email) == FirstMatch({c \in DOMAIN contacts : contacts[c].email = email})

\* GET /contacts/lookup?phone=
ByPhone(phone) == FirstMatch({c \in DOMAIN contacts : contacts[c].phone = phone})

\* GET /contacts?query=
ByQuery(q) ==
  FirstMatch({c \in DOMAIN contacts :
                \E k \in DOMAIN contacts[c].customFields :
                   /\ contacts[c].customFields[k].id \in TextFieldIds
                   /\ contacts[c].customFields[k].value = q})

\* variant: the tenant-id custom field of the request acts as an idempotency key
VendorMatches_byTenantId(payload) ==
  {c \in DOMAIN contacts :
     \/ (payload.email # "" /\ contacts[c].email = payload.email)
     \/ (payload.phone # <<>> /\ contacts[c].phone = payload.phone)
     \/ \E k \in DOMAIN contacts[c].customFields, m \in DOMAIN payload.customFields :
           /\ contacts[c].customFields[k].id = CUSTOM_FIELD_IDS.TENANT_ID
           /\ payload.customFields[m] = contacts[c].customFields[k]}

\* the vendor's create-or-update: the request carries no contact id, so an
\* existing contact can only be matched on the email or phone it carries
VendorMatches(payload) ==
  {c \in DOMAIN contacts :
     \/ (payload.email # "" /\ contacts[c].email = payload.email)
     \/ (payload.phone # <<>> /\ contacts[c].phone = payload.phone)}

RECURSIVE MergeFields(_, _)
MergeFields(old, new) ==
  IF new = <<>> THEN old
  ELSE LET f == Head(new)
           hit == {k \in DOMAIN old : old[k].id = f.id}
       IN  MergeFields(IF hit = {} THEN Append(old, f)
                       ELSE [k \in DOMAIN old |-> IF k \in hit THEN f ELSE old[k]],
                       Tail(new))

\* the contact store after POST /contacts with this payload, and the id used
VendorUpsert(payload) ==
  LET m == VendorMatches(payload)
  IN  IF m = {}
        THEN [store |-> Append(contacts,
                          [id |-> Len(contacts) + 1, email |-> payload.email,
                           phone |-> payload.phone,
                           customFields |-> MergeFields(<<>>, payload.customFields)]),
              id |-> Len(contacts) + 1]
        ELSE LET c == CHOOSE x \in m : \A y \in m : x <= y
             IN  [store |-> [contacts EXCEPT
                               ![c].email = IF payload.email # "" THEN payload.email ELSE @,
                               ![c].phone = IF payload.phone # <<>> THEN payload.phone ELSE @,
                               ![c].customFields = MergeFields(@, payload.customFields)],
                  id |-> c]

\* ------------------------------------------------------ serve handler steps
Quiet(p) == run[p].pc \in {"idle", "done"}

\* a database error, a non-2xx response, a network error or a throwing row
Failing(b) == /\ b => faults < MaxFaults
              /\ faults' = IF b THEN faults + 1 ELSE faults

\* ghlFetchV2 sends "Bearer " + GHL.KEY_V2: without the key every request is
\* refused by the vendor (non-2xx), which is no injected fault
Authorized == KEY_V2_VAR \notin missingEnv

Refused(failed) == /\ ~Authorized => failed
                   /\ Failing(failed /\ Authorized)

\* variant: every early answer has status 200
Respond_always200(p, status, text) ==
  [run EXCEPT ![p].pc = "done", ![p].response = [status |-> 200, text |-> text]]

Respond(p, status, text) ==
  [run EXCEPT ![p].pc = "done", ![p].response = [status |-> status, text |-> text]]

\* the log of remote calls of the invocation, in the order they were sent:
\* res is "found" / "none" for a lookup that answered, "ok" / "noid" for a
\* write that answered (with / without an id), "fail" for non-2xx or no answer
Call(p, op, res) == Append(run[p].calls, [op |-> op, id |-> CurRow(p).id, res |-> res])

\* variant: the end of a row's body leaves the loop
AfterRow_leavesLoop(p) == "checkpoint"

\* position after the loop body of row i ends (normally, by continue, or in
\* the row-level catch): the next row, or the checkpoint step
AfterRow(p) == IF run[p].i + 1 > Len(run[p].leases) THEN "checkpoint" ELSE "loop"

\* the loop-scoped locals (existing, contact) end with the iteration
EndRow(rn, p) ==
  [rn EXCEPT ![p].pc = AfterRow(p), ![p].i = @ + 1,
             ![p].existing = IdleRun.existing, ![p].contact = IdleRun.contact]

\* lines 216-236: the text of the 500 answer of the validation, "" when it passes
ConfigurationError ==
  IF missingEnv \cap criticalEnvVars # {}
    THEN "Configuration error: Missing critical environment variables"
  ELSE IF missingEnv \cap GhlIdVars # {}
    THEN "Configuration error: Missing GHL IDs"
  ELSE ""

\* lines 215-246: validate, then read the checkpoint; the read ends in
\* .single(), which answers with an error unless exactly one row matches
StartRun(p) ==
  /\ Quiet(p)
  /\ runsStarted < MaxRuns
  /\ overlap \/ (p = "r1" /\ \A q \in Runs : Quiet(q))
  /\ runsStarted' = runsStarted + 1
  /\ \E ckptError \in BOOLEAN :
       /\ Failing(ckptError /\ last_run_at # NoCheckpointRow)
       /\ ConfigurationError # "" => ~ckptError
       /\ (ConfigurationError = "" /\ last_run_at = NoCheckpointRow) => ckptError
       /\ run' = IF ConfigurationError # ""
                  THEN [run EXCEPT ![p] = [IdleRun EXCEPT !.pc = "done",
                          !.oppsBefore = Len(opportunities),
                          !.response = [status |-> 500, text |-> ConfigurationError]]]
                  ELSE IF ckptError
                  THEN [run EXCEPT ![p] = [IdleRun EXCEPT !.pc = "done",
                          !.oppsBefore = Len(opportunities),
                          !.response = [status |-> 500, text |-> "Error fetching checkpoint"]]]
                  ELSE [run EXCEPT ![p] = [IdleRun EXCEPT !.pc = "query",
                          !.oppsBefore = Len(opportunities),
                          !.sinceISO = last_run_at]]
  /\ UNCHANGED <<tenants, last_run_at, now, contacts, opportunities, overlap, missingEnv, fn,
                 repair, legacy, script>>

\* variant: the checkpoint is written before the error is answered
AfterQueryError_writesCheckpoint(p) ==
  [run EXCEPT ![p].pc = "done", ![p].writes = @ + 1,
              ![p].response = [status |-> 500, text |-> "Supabase read failed"]]

\* lines 264-268: the answer to a failed candidate query
AfterQueryError(p) == Respond(p, 500, "Supabase read failed")

\* lines 257-277: the candidate query
FetchCandidates(p) ==
  /\ run[p].pc = "query"
  /\ \E error \in BOOLEAN :
       /\ Failing(error)
       /\ IF error
         THEN run' = AfterQueryError(p)
         ELSE \E leases \in CandidateLists(run[p].sinceISO) :
                run' = IF Len(leases) = 0
                         THEN Respond(p, 200, "No new tenants")
                         ELSE [run EXCEPT ![p].pc = "loop", ![p].leases = leases,
                                          ![p].i = 1, ![p].processedTenants = <<>>]
  /\ UNCHANGED <<tenants, last_run_at, now, contacts, opportunities, runsStarted, overlap, missingEnv, fn,
                 repair, legacy, script>>

\* lines 280-374: the loop body up to the first remote call
BeginRow(p) ==
  /\ run[p].pc = "loop"
  /\ \E thrown \in BOOLEAN :
     LET r == CurRow(p)
     IN  Failing(thrown) /\ run' = IF thrown
                  THEN \* a TypeError on the row's data (a tenant_phone element or
                       \* a check_in_date that is not a string) lands in the
                       \* catch of line 576
                       EndRow([run EXCEPT ![p].thrown = @ \cup {r.id}], p)
                  ELSE [run EXCEPT ![p].existing = <<>>,
                                   ![p].contact = DraftContact(r),
                                   ![p].pc = IF Number(r.rent) > 0 /\ YearOf(r) # ""
                                               THEN "resolve_email" ELSE "upsert"]
  /\ UNCHANGED <<tenants, last_run_at, now, contacts, opportunities, runsStarted, overlap, missingEnv, fn,
                 repair, legacy, script>>

Unch == UNCHANGED <<tenants, last_run_at, now, contacts, opportunities, runsStarted, overlap, missingEnv, fn,
                 repair, legacy, script>>

\* variant: a failed lookup is sent a second time
LookupStep_resendsOnFailure(p, skip, op, result, nextPc) ==
  IF skip
    THEN run' = [run EXCEPT ![p].pc = nextPc] /\ Failing(FALSE)
    ELSE \E ok \in BOOLEAN :
           Refused(~ok) /\
           LET answer == IF result = <<>> THEN "none" ELSE "found"
               first == Call(p, op, IF ok THEN answer ELSE "fail")
           IN  run' = [run EXCEPT ![p].pc = nextPc,
                                  ![p].calls = IF ok \/ ~Authorized THEN first
                                               ELSE Append(first, [op |-> op, id |-> CurRow(p).id,
                                                                   res |-> answer]),
                                  ![p].existing = IF Authorized THEN result ELSE <<>>]

\* variant: the step is sent whether or not it should be skipped
LookupStep_neverSkips(p, skip, op, result, nextPc) ==
  \E ok \in BOOLEAN :
    Refused(~ok) /\
    run' = [run EXCEPT ![p].pc = nextPc,
                       ![p].calls = Call(p, op, IF ~ok THEN "fail"
                                                ELSE IF result = <<>> THEN "none"
                                                ELSE "found"),
                       ![p].existing = IF ok THEN result ELSE <<>>]

\* variant: a failed lookup is not caught and ends the row in the row-level catch
LookupStep_failureEndsRow(p, skip, op, result, nextPc) ==
  IF skip
    THEN run' = [run EXCEPT ![p].pc = nextPc] /\ Failing(FALSE)
    ELSE \E ok \in BOOLEAN :
           Refused(~ok) /\
           run' = IF ok
                    THEN [run EXCEPT ![p].pc = nextPc,
                                     ![p].calls = Call(p, op, IF result = <<>> THEN "none"
                                                              ELSE "found"),
                                     ![p].existing = result]
                    ELSE EndRow([run EXCEPT ![p].calls = Call(p, op, "fail")], p)

\* one step of the cascade: nothing is sent when skip holds; otherwise the
\* call is sent and a failure (non-2xx, network error) is caught and yields null
LookupStep(p, skip, op, result, nextPc) ==
  IF skip
    THEN run' = [run EXCEPT ![p].pc = nextPc] /\ Failing(FALSE)
    ELSE \E ok \in BOOLEAN :
           Refused(~ok) /\
           run' = [run EXCEPT ![p].pc = nextPc,
                              ![p].calls = Call(p, op, IF ~ok THEN "fail"
                                                       ELSE IF result = <<>> THEN "none"
                                                       ELSE "found"),
                              ![p].existing = IF ok THEN result ELSE <<>>]

\* line 380 and getContactByEmailV2 (lines 94-109)
LookupEmail(p) ==
  /\ run[p].pc = "resolve_email"
  /\ LookupStep(p, CurRow(p).tenant_email = "", "lookup_email",
                ByEmail(CurRow(p).tenant_email), "resolve_phone")
  /\ Unch

\* lines 383-386 and getContactByPhoneV2 (lines 112-127)
LookupPhone(p) ==
  /\ run[p].pc = "resolve_phone"
  /\ LookupStep(p, ~(run[p].existing = <<>> /\ run[p].contact.phone # <<>>),
                "lookup_phone", ByPhone(run[p].contact.phone), "resolve_confirmation")
  /\ Unch

\* lines 389-394 and getContactByQueryV2 (lines 130-145)
LookupConfirmation(p) ==
  /\ run[p].pc = "resolve_confirmation"
  /\ LookupStep(p, ~(run[p].existing = <<>> /\ CurRow(p).confirmation_number # ""),
                "query_confirmation", ByQuery(CurRow(p).confirmation_number),
                "resolve_tenant_id")
  /\ Unch

\* lines 409-419: existing?.customField?.yearly_rent_totals_json, parsed
existingTotals(existing) ==
  IF existing = <<>> THEN EmptyTotals
  ELSE LET e == existing[1]
       IN  IF /\ "customField" \in DOMAIN e
              /\ "yearly_rent_totals_json" \in DOMAIN e.customField
             THEN JSONparse(e.customField.yearly_rent_totals_json)
             ELSE EmptyTotals

\* lines 421-438: the two rent custom fields pushed onto contact.customField
RentFields(r, existing) ==
  LET t == calculateRentTotals(Number(r.rent), YearOf(r), existingTotals(existing))
  IN  <<[id |-> CUSTOM_FIELD_IDS.YEARLY_RENT_TOTALS, value |-> JSONstringify(t.yearlyTotals)],
        [id |-> CUSTOM_FIELD_IDS.TOTAL_LIFETIME_RENT, value |-> ToString(t.totalLifetimeRent)]>>

\* lines 396-442: the last lookup, then the rent totals are attached
LookupTenantId(p) ==
  /\ run[p].pc = "resolve_tenant_id"
  /\ \E ok \in BOOLEAN :
       LET skip == run[p].existing # <<>>
           found == IF skip THEN run[p].existing
                    ELSE IF ok THEN ByQuery(ToString(CurRow(p).id)) ELSE <<>>
       IN  /\ skip => ok
           /\ IF skip THEN Failing(FALSE) ELSE Refused(~ok)
           /\ run' = [run EXCEPT
                        ![p].pc = "upsert",
                        ![p].calls = IF skip THEN @
                                     ELSE Call(p, "query_tenant_id",
                                               IF ~ok THEN "fail"
                                               ELSE IF found = <<>> THEN "none" ELSE "found"),
                        ![p].existing = found,
                        ![p].contact.customField = @ \o RentFields(CurRow(p), found)]
  /\ Unch

\* variant: a failed upsert does not skip the row
AfterUpsert_ignoresFailure(outcome, year) ==
  IF year # "" THEN "opportunity" ELSE "push"

\* variant: an opportunity is created whether or not the row has a year
AfterUpsert_alwaysOpportunity(outcome, year) ==
  IF outcome # "ok" THEN "continue" ELSE "opportunity"

\* lines 485-497 and 512: what follows the answer to the contact upsert:
\* continue (row skipped), the opportunity create, or straight to the push
AfterUpsert(outcome, year) ==
  IF outcome # "ok" THEN "continue"
  ELSE IF year # "" THEN "opportunity"
  ELSE "push"

\* variant: the row is pushed only when the opportunity create succeeded
PushedAfterOpportunity_onlyOnSuccess(ok) == ok

\* lines 564-573: whether the row is pushed onto processedTenants after the
\* opportunity create answered ok or failed
PushedAfterOpportunity(ok) == TRUE

\* lines 447-508: the contact upsert, then the stage
UpsertContact(p) ==
  /\ run[p].pc = "upsert"
  /\ LET r == CurRow(p)
         payload == [email |-> run[p].contact.email, phone |-> run[p].contact.phone,
                     customFields |-> run[p].contact.customField]
         v == VendorUpsert(payload)
     IN  \E outcome \in {"ok", "noid", "fail"} :
           LET logged == [run EXCEPT ![p].calls = Call(p, "upsert", outcome)]
               branch == AfterUpsert(outcome, YearOf(r))
           IN  /\ ~Authorized => outcome = "fail"
               /\ Failing(outcome # "ok" /\ Authorized)
               /\ contacts' = IF outcome = "fail" THEN contacts ELSE v.store
               /\ run' = IF branch = "continue"
                           THEN EndRow(logged, p)
                         ELSE IF branch = "opportunity"
                           THEN [logged EXCEPT ![p].existing = <<[id |-> v.id]>>,
                                               ![p].pc = "opportunity"]
                         ELSE EndRow([logged EXCEPT ![p].processedTenants = Append(@, r)], p)
  /\ UNCHANGED <<tenants, last_run_at, now, opportunities, runsStarted, overlap, missingEnv, fn,
                 repair, legacy, script>>

\* lines 510-574: the opportunity create, then processedTenants.push(r)
CreateOpportunity(p) ==
  /\ run[p].pc = "opportunity"
  /\ LET r == CurRow(p)
         v2Payload == [externalId |-> IF r.confirmation_number # ""
                                        THEN r.confirmation_number
                                        ELSE "tenant-" \o ToString(r.id),
                       stageId |-> selectStage(YearOf(r), r.status),
                       monetaryValue |-> Number(r.rent),
                       contactId |-> run[p].existing[1].id]
     IN  \E ok \in BOOLEAN :
           /\ Refused(~ok)
           /\ opportunities' = IF ok THEN Append(opportunities, v2Payload) ELSE opportunities
           /\ run' = EndRow([run EXCEPT
                               ![p].calls = Call(p, "opportunity", IF ok THEN "ok" ELSE "fail"),
                               ![p].processedTenants =
                                  IF PushedAfterOpportunity(ok) THEN Append(@, r) ELSE @], p)
  /\ UNCHANGED <<tenants, last_run_at, now, contacts, runsStarted, overlap, missingEnv, fn,
                 repair, legacy, script>>

\* the response after the sync_state upsert was sent
RespondAfterWrite(p, status, text) ==
  [run EXCEPT ![p].pc = "done", ![p].writes = @ + 1,
              ![p].response = [status |-> status, text |-> text]]

\* variant: a failed checkpoint write is answered like a successful one
CheckpointStatus_always200(updateError) == 200

\* lines 604-613 and 631-640: the status of the answer after the write
CheckpointStatus(updateError) == IF updateError THEN 500 ELSE 200

\* lines 582-647: the checkpoint write and the response
WriteCheckpoint(p) ==
  /\ run[p].pc = "checkpoint"
  /\ LET n == Len(run[p].processedTenants)
         value == IF n > 0
                    THEN latestTimestamp(run[p].processedTenants, run[p].sinceISO)
                    ELSE now
     IN  \E updateError \in BOOLEAN :
           /\ Failing(updateError)
           /\ last_run_at' = IF updateError THEN last_run_at ELSE value
           /\ run' = IF n > 0
                       THEN RespondAfterWrite(p, CheckpointStatus(updateError),
                                    IF updateError
                                      THEN "Synced N tenants but failed to update checkpoint"
                                      ELSE "Synced N tenants")
                       ELSE RespondAfterWrite(p, CheckpointStatus(updateError),
                                    IF updateError
                                      THEN "Processed 0 tenants but failed to update checkpoint"
                                      ELSE "Processed 0 tenants successfully")
  /\ UNCHANGED <<tenants, now, contacts, opportunities, runsStarted, overlap, missingEnv, fn,
                 repair, legacy, script>>

\* the wall clock advances; it is read only by the checkpoint step (line
\* 628), so its steps are taken between invocations and right before that read
Tick ==
  /\ now < MaxTime
  /\ \A p \in Runs : run[p].pc \in {"idle", "done", "checkpoint"}
  /\ now' = now + 1
  /\ UNCHANGED <<tenants, last_run_at, contacts, opportunities, run, runsStarted,
                 faults, overlap, missingEnv, fn,
                 repair, legacy, script>>

Next ==
  \/ \E p \in Runs : StartRun(p)
  \/ \E p \in Runs : FetchCandidates(p)
  \/ \E p \in Runs : BeginRow(p)
  \/ \E p \in Runs : LookupEmail(p)
  \/ \E p \in Runs : LookupPhone(p)
  \/ \E p \in Runs : LookupConfirmation(p)
  \/ \E p \in Runs : LookupTenantId(p)
  \/ \E p \in Runs : UpsertContact(p)
  \/ \E p \in Runs : CreateOpportunity(p)
  \/ \E p \in Runs : WriteCheckpoint(p)
  \/ Tick

\* ------------------------------------------------------------ initial states
ValidPhone(t) == <<"2", "0", "3", "6", "7", "1", "8", "3", "3", ToString(t)>>
EmailOf(t) == "tenant" \o ToString(t) \o "@b.com"
ConfirmationOf(t) == "CONF" \o ToString(t)

Rent1200 == <<"1", "2", "0", "0">>
RentZero == <<"0">>

NoPhone == [kind |-> "null", items |-> <<>>, text |-> <<>>]
PhoneArray(items) == [kind |-> "array", items |-> items, text |-> <<>>]

Row(t, created, scraped, email, phone, conf, rent, date, status) ==
  [id |-> t, created_at |-> created, last_scraped_at |-> scraped,
   tenant_email |-> email, tenant_phone |-> phone, confirmation_number |-> conf,
   rent |-> rent, check_in_date |-> date, status |-> status]

\* rows with every contact attribute present; the timestamps vary
FullRows(t) ==
  {Row(t, c, s, EmailOf(t), PhoneArray(<<ValidPhone(t)>>), ConfirmationOf(t),
       Rent1200, <<"2025", "07", "18">>, "booked") :
     c \in 1..MaxTime, s \in {NoTime} \cup (1..MaxTime)}

InitCommon ==
  /\ last_run_at = EPOCH_FALLBACK
  /\ now = 0
  /\ opportunities = <<>>
  /\ run = [p \in Runs |-> IdleRun]
  /\ runsStarted = 0
  /\ faults = 0
  /\ fn = NoCall
  /\ repair = NoRepair
  /\ legacy = LegacyIdle
  /\ script = ScriptIdle

Init ==
  /\ InitCommon
  /\ overlap = FALSE
  /\ missingEnv = {}
  /\ contacts = <<>>
  /\ \E f \in [TenantIds -> UNION {FullRows(t) : t \in TenantIds}] :
       /\ \A t \in TenantIds : f[t].id = t
       /\ \A t, u \in TenantIds : t < u => f[t].created_at <= f[u].created_at
       /\ tenants = f

Spec == Init /\ [][Next]_vars

\* a single row whose contact attributes, rent and check-in date vary (NULL, a
\* past year, the current year, text that is no date), against
\* a CRM that is empty or holds one contact entered by hand that carries the
\* row's confirmation code
ShortPhone == <<"5", "5", "5", "1", "2", "3", "4">>

\* a check_in_date that holds text instead of a date: its first four
\* characters are "TBD"
UndatedText == <<"TBD">>

VariedRows(t) ==
  {Row(t, 1, NoTime, e, ph, cn, rent, date, "booked") :
     e \in {"", EmailOf(t)},
     ph \in {NoPhone, PhoneArray(<<ShortPhone>>), PhoneArray(<<ValidPhone(t)>>)},
     cn \in {"", ConfirmationOf(t)},
     rent \in {RentZero, Rent1200},
     date \in {<<>>, <<"2024", "07", "20">>, <<"2025", "07", "18">>, UndatedText}}

HandEnteredContact(t) ==
  [id |-> 1, email |-> "", phone |-> <<>>,
   customFields |-> <<[id |-> CF_CONFIRMATION, value |-> ConfirmationOf(t)]>>]

InitResolve ==
  /\ InitCommon
  /\ overlap = FALSE
  /\ missingEnv = {}
  /\ contacts \in {<<>>, <<HandEnteredContact(1)>>}
  /\ \E r \in VariedRows(1) : tenants = [t \in {1} |-> r]

SpecResolve == InitResolve /\ [][Next]_vars

\* a single row with every attribute present, under every deployment in which
\* at most one environment variable is not set
InitConfig ==
  /\ InitCommon
  /\ overlap = FALSE
  /\ missingEnv \in {{}} \cup {{v} : v \in EnvVars}
  /\ contacts = <<>>
  /\ \E r \in FullRows(1) : tenants = [t \in {1} |-> r]

SpecConfig == InitConfig /\ [][Next]_vars

\* overlapping invocations (e.g. two schedule triggers) over a single row with
\* rent and check-in date, with or without an email, and an empty CRM
OverlapRows(t) ==
  {Row(t, 1, NoTime, e, NoPhone, "", Rent1200, <<"2025", "07", "18">>, "booked") :
     e \in {"", EmailOf(t)}}

InitOverlap ==
  /\ InitCommon
  /\ overlap = TRUE
  /\ missingEnv = {}
  /\ contacts = <<>>
  /\ \E r \in OverlapRows(1) : tenants = [t \in {1} |-> r]

SpecOverlap == InitOverlap /\ [][Next]_vars

\* the row of the end-to-end scenario of the documentation: id 42, one phone
\* number in an array, rent given as text, no confirmation code, empty CRM
ScenarioRow(created) ==
  Row(42, created, NoTime, "a@b.com",
      PhoneArray(<< <<"2", "0", "3", "6", "7", "1", "8", "3", "3", "5">> >>), "",
      Rent1200, <<"2025", "07", "18">>, "")

InitScenario ==
  /\ InitCommon
  /\ overlap = FALSE
  /\ missingEnv = {}
  /\ contacts = <<>>
  /\ \E c \in 1..MaxTime : tenants = [t \in {42} |-> ScenarioRow(c)]

SpecScenario == InitScenario /\ [][Next]_vars

\* a deployment whose sync_state table is empty, or holds the row with the
\* fallback instant, and a single row with every attribute present
InitFirstRun ==
  /\ last_run_at \in {NoCheckpointRow, EPOCH_FALLBACK}
  /\ now = 0
  /\ opportunities = <<>>
  /\ run = [p \in Runs |-> IdleRun]
  /\ runsStarted = 0
  /\ faults = 0
  /\ fn = NoCall
  /\ repair = NoRepair
  /\ legacy = LegacyIdle
  /\ script = ScriptIdle
  /\ overlap = FALSE
  /\ missingEnv = {}
  /\ contacts = <<>>
  /\ \E r \in FullRows(1) : tenants = [t \in {1} |-> r]

SpecFirstRun == InitFirstRun /\ [][Next]_vars

\* ------------------------------------------------------------ bulk scripts
\* scripts/create-missing-opps.ts main, scripts/patch-phone-format.ts main:
\* the loop over the contacts with its per-minute limiter. script.clock is
\* Date.now(), script.started the instants at which a remote write began.
ScriptNames == {"create-missing-opps", "patch-phone-format"}
ScriptUnch == UNCHANGED <<tenants, last_run_at, now, contacts, opportunities, run,
                          runsStarted, faults, overlap, missingEnv, fn, repair, legacy>>

\* let processedInThisMinute = 0; let minuteStartTime = Date.now();
ScriptStart ==
  /\ script.pc = "idle"
  /\ \E name \in ScriptNames, length \in 1..MaxContacts :
       script' = [ScriptIdle EXCEPT !.pc = "check", !.name = name, !.length = length]
  /\ ScriptUnch

\* the head of the loop body: a new window after more than a minute, a sleep
\* to the end of the window once RATE_LIMIT operations were counted in it
\* (the timer fires at timeToWait or later)
ScriptThrottle ==
  /\ script.pc = "check"
  /\ LET currentTime == script.clock IN
     IF currentTime - script.minuteStartTime > MINUTE_MS
       THEN script' = [script EXCEPT !.pc = "contact", !.processedInThisMinute = 0,
                                     !.minuteStartTime = currentTime]
     ELSE IF script.processedInThisMinute >= RATE_LIMIT
       THEN \E late \in 0..1 :
              LET timeToWait == MINUTE_MS - (currentTime - script.minuteStartTime)
                  woken == currentTime + timeToWait + late
              IN  script' = [script EXCEPT !.pc = "contact", !.clock = woken,
                                           !.processedInThisMinute = 0,
                                           !.minuteStartTime = woken]
     ELSE script' = [script EXCEPT !.pc = "contact"]
  /\ ScriptUnch

\* the end of the loop body: the next contact, after sleep(SLEEP_MS) when the
\* batch is finished and contacts are left
ScriptNextContact(s, clock) ==
  LET i == s.i + 1
      batchEnd == i % BATCH_SIZE = 0 \/ i = s.length
  IN  [s EXCEPT !.i = i,
                !.pc = IF i < s.length THEN "check" ELSE "done",
                !.clock = IF batchEnd /\ i < s.length THEN clock + SLEEP_MS ELSE clock]

\* one remote write: createOpportunity(contact) / updateContactPhones(...),
\* counted whether it succeeds or not
ScriptOperation ==
  /\ script.pc = "contact"
  /\ \E took \in 0..MaxOpTicks :
       script' = ScriptNextContact(
                   [script EXCEPT !.started = Append(@, script.clock),
                                  !.processedInThisMinute = @ + 1],
                   script.clock + took)
  /\ ScriptUnch

\* patch-phone-format.ts only: a contact that is not salvageable (continue) or
\* needs no change; nothing is sent and nothing is counted
ScriptSkip ==
  /\ script.pc = "contact"
  /\ script.name = "patch-phone-format"
  /\ script' = ScriptNextContact(script, script.clock)
  /\ ScriptUnch

NextScript ==
  \/ ScriptStart
  \/ ScriptThrottle
  \/ ScriptOperation
  \/ ScriptSkip

InitScript ==
  /\ InitCommon
  /\ overlap = FALSE
  /\ missingEnv = {}
  /\ contacts = <<>>
  /\ tenants = [t \in TenantIds |-> CHOOSE r \in FullRows(t) : TRUE]

SpecScript == InitScript /\ [][NextScript]_vars

\* ------------------------------------------- the legacy handler (index.ts)
LegacyUnch == UNCHANGED <<tenants, now, run, runsStarted, faults, overlap, missingEnv,
                          fn, repair, script>>

LegacyCall(op, res) ==
  Append(legacy.calls, [op |-> op, id |-> legacy.leases[legacy.i].id, res |-> res])

\* continue, or the end of the loop body: the next row, or the checkpoint step
LegacyEndRow(l) ==
  [l EXCEPT !.i = @ + 1,
            !.pc = IF legacy.i + 1 > Len(legacy.leases) THEN "checkpoint" ELSE "loop"]

\* index.ts lines 61-91: checkpoint read and candidate query
LegacyFetch ==
  /\ legacy.pc = "idle"
  /\ \E leases \in CandidateLists(last_run_at) :
       legacy' = IF Len(leases) = 0 THEN [legacy EXCEPT !.pc = "done"]
                 ELSE [legacy EXCEPT !.pc = "loop", !.leases = leases, !.i = 1]
  /\ UNCHANGED <<last_run_at, contacts, opportunities>>
  /\ LegacyUnch

\* index.ts lines 94-216: the loop body up to the first remote call; a throw
\* lands in the catch of line 329
LegacyBeginRow ==
  /\ legacy.pc = "loop"
  /\ \E thrown \in BOOLEAN :
       LET r == legacy.leases[legacy.i]
       IN  legacy' = IF thrown THEN LegacyEndRow(legacy)
                     ELSE [legacy EXCEPT !.pc = IF Number(r.rent) > 0 /\ YearOf(r) # ""
                                                 THEN "search" ELSE "upsert"]
  /\ UNCHANGED <<last_run_at, contacts, opportunities>>
  /\ LegacyUnch

\* index.ts lines 218-244: POST /v1/contacts/search; not ok or a throw: continue
LegacySearch ==
  /\ legacy.pc = "search"
  /\ \E ok \in BOOLEAN :
       legacy' = IF ok THEN [legacy EXCEPT !.pc = "upsert", !.calls = LegacyCall("search", "ok")]
                 ELSE LegacyEndRow([legacy EXCEPT !.calls = LegacyCall("search", "fail")])
  /\ UNCHANGED <<last_run_at, contacts, opportunities>>
  /\ LegacyUnch

\* index.ts lines 265-284: POST /v1/contacts/; not ok or a throw: continue
LegacyUpsert ==
  /\ legacy.pc = "upsert"
  /\ LET r == legacy.leases[legacy.i]
     IN  \E ok \in BOOLEAN :
           /\ legacy' = IF ok THEN [legacy EXCEPT !.pc = "opportunity",
                                                  !.calls = LegacyCall("upsert", "ok")]
                         ELSE LegacyEndRow([legacy EXCEPT !.calls = LegacyCall("upsert", "fail")])
           /\ contacts' = IF ok THEN Append(contacts, [id |-> Len(contacts) + 1,
                                                       email |-> r.tenant_email,
                                                       phone |-> <<>>, customFields |-> <<>>])
                           ELSE contacts
  /\ UNCHANGED <<last_run_at, opportunities>>
  /\ LegacyUnch

\* variant: the row is counted whatever the opportunity call answered
LegacyPushed_always(ok) == TRUE

\* index.ts lines 316-324: continue when the opportunity call failed, else
\* processedTenants.push(r)
LegacyPushed(ok) == ok

\* index.ts lines 286-324: stage, POST /v1/opportunities/, processedTenants.push(r)
LegacyOpportunity ==
  /\ legacy.pc = "opportunity"
  /\ LET r == legacy.leases[legacy.i]
     IN  \E ok \in BOOLEAN :
           /\ legacy' = LegacyEndRow([legacy EXCEPT
                           !.calls = LegacyCall("opportunity", IF ok THEN "ok" ELSE "fail"),
                           !.processedTenants = IF LegacyPushed(ok) THEN Append(@, r) ELSE @])
           /\ opportunities' =
                IF ok THEN Append(opportunities,
                             [externalId |-> IF r.confirmation_number # ""
                                               THEN r.confirmation_number
                                               ELSE "tenant-" \o ToString(r.id),
                              stageId |-> selectStage(YearOf(r), r.status),
                              monetaryValue |-> Number(r.rent),
                              contact |-> [email |-> r.tenant_email]])
                ELSE opportunities
  /\ UNCHANGED <<last_run_at, contacts>>
  /\ LegacyUnch

\* index.ts lines 336-377: the checkpoint is written only when a row was processed
LegacyCheckpoint ==
  /\ legacy.pc = "checkpoint"
  /\ legacy' = [legacy EXCEPT !.pc = "done"]
  /\ \E updateError \in BOOLEAN :
       last_run_at' = IF Len(legacy.processedTenants) > 0 /\ ~updateError
                        THEN latestTimestamp(legacy.processedTenants, last_run_at)
                        ELSE last_run_at
  /\ UNCHANGED <<contacts, opportunities>>
  /\ LegacyUnch

NextLegacy ==
  \/ LegacyFetch
  \/ LegacyBeginRow
  \/ LegacySearch
  \/ LegacyUpsert
  \/ LegacyOpportunity
  \/ LegacyCheckpoint

\* rows with or without rent, check-in date and confirmation code
LegacyRows(t) ==
  {Row(t, 1, NoTime, EmailOf(t), NoPhone, cn, rent, date, "booked") :
     cn \in {"", ConfirmationOf(t)},
     rent \in {RentZero, Rent1200},
     date \in {<<>>, <<"2025", "07", "18">>}}

InitLegacy ==
  /\ InitCommon
  /\ overlap = FALSE
  /\ missingEnv = {}
  /\ contacts = <<>>
  /\ tenants \in [TenantIds -> UNION {LegacyRows(t) : t \in TenantIds}]
  /\ \A t \in TenantIds : tenants[t].id = t

SpecLegacy == InitLegacy /\ [][NextLegacy]_vars

\* ------------------------------------------------------- the repair scripts
\* update-missing-tenants.ts lines 116-142 and fix-phone-formatting.ts lines
\* 94-117: .update({ last_scraped_at: new Date().toISOString() }).in("id", S),
\* once per behaviour, at any moment; inFlight are the invocations that are
\* past their candidate query and have not answered, synced the ones that
\* have answered "Synced N tenants" with every candidate row processed
UpdateTenantTimestamps ==
  /\ ~repair.done
  /\ \E S \in SUBSET DOMAIN tenants :
       /\ S # {}
       /\ tenants' = [t \in DOMAIN tenants |->
                        IF t \in S THEN [tenants[t] EXCEPT !.last_scraped_at = now]
                        ELSE tenants[t]]
       /\ repair' = [done |-> TRUE, S |-> S, runsBefore |-> runsStarted,
                     inFlight |-> {p \in Runs : run[p].pc \notin {"idle", "query", "done"}},
                     synced |-> {p \in Runs :
                                   /\ run[p].pc = "done"
                                   /\ run[p].response.text = "Synced N tenants"
                                   /\ Len(run[p].processedTenants) = Len(run[p].leases)}]
  /\ UNCHANGED <<last_run_at, now, contacts, opportunities, run, runsStarted, faults,
                 overlap, missingEnv, fn, legacy, script>>

NextRepair == Next \/ UpdateTenantTimestamps

\* two rows created at the same time and never scraped
RepairRows(t) ==
  {Row(t, 1, NoTime, EmailOf(t), PhoneArray(<<ValidPhone(t)>>), ConfirmationOf(t),
       Rent1200, <<"2025", "07", "18">>, "booked")}

InitRepair ==
  /\ InitCommon
  /\ overlap = FALSE
  /\ missingEnv = {}
  /\ contacts = <<>>
  /\ tenants \in [TenantIds -> UNION {RepairRows(t) : t \in TenantIds}]
  /\ \A t \in TenantIds : tenants[t].id = t

SpecRepair == InitRepair /\ [][NextRepair]_vars

\* ------------------------------------------------------ library functions
\* The pure parts, each applied once to an argument drawn from a bounded set;
\* the handler stays idle.
Pending(name) == fn.name = name /\ ~fn.done
Returned(name) == fn.name = name /\ fn.done
Return(v) == fn' = [fn EXCEPT !.result = v, !.done = TRUE]
HandlerIdle == UNCHANGED <<tenants, last_run_at, now, contacts, opportunities, run,
                           runsStarted, faults, overlap, missingEnv,
                           repair, legacy, script>>
CallOf(name, arg) == [name |-> name, arg |-> arg, result |-> <<>>, done |-> FALSE]

\* years and statuses a row can carry ("" is the undefined year)
StageYears == {"", "2023", "2024", "2025", "2026", "2027", "TBD"}
StageStatuses == {"", "booked", "needs_search", "search_sent"}

\* line 21
LOCATION_ID == "v5jAtUx8vmG1ucKOCjA8"

\* A request is a method, the names of the query parameters of its URL, and a
\* body: none, text that is no JSON, or a JSON object of which only the
\* locationId member matters (has: the key is there; locationId: its value,
\* "" when the key is absent or the value is empty).
NoBody == [kind |-> "none", has |-> FALSE, locationId |-> ""]
TextBody == [kind |-> "text", has |-> FALSE, locationId |-> ""]
JsonBody(has, loc) == [kind |-> "json", has |-> has, locationId |-> loc]

\* variant: the query parameter is appended to every GET
ghlFetchV2_alwaysAppends(req) ==
  [method |-> req.method,
   params |-> IF req.method = "GET" THEN Append(req.params, "locationId") ELSE req.params,
   body |-> IF req.method = "POST" /\ req.body.kind = "json" /\ req.body.locationId = ""
              THEN JsonBody(TRUE, LOCATION_ID) ELSE req.body]

\* lines 47-82: the request ghlFetchV2 hands to fetch
ghlFetchV2(req) ==
  [method |-> req.method,
   params |-> IF req.method = "GET" /\ \A k \in DOMAIN req.params : req.params[k] # "locationId"
                THEN Append(req.params, "locationId") ELSE req.params,
   body |-> IF req.method = "POST" /\ req.body.kind # "none"
              THEN IF req.body.kind = "json" /\ req.body.locationId = ""
                     THEN JsonBody(TRUE, LOCATION_ID)
                     ELSE req.body
              ELSE req.body]

Methods == {"GET", "POST", "PUT", "DELETE"}
ParamLists == {<<>>, <<"email">>, <<"query", "locationId">>}
Bodies == {NoBody, TextBody, JsonBody(FALSE, ""), JsonBody(TRUE, ""),
           JsonBody(TRUE, "otherLocation"), JsonBody(TRUE, LOCATION_ID)}

ApplyGhlFetchV2 ==
  /\ Pending("ghlFetchV2")
  /\ Return(ghlFetchV2(fn.arg))
  /\ HandlerIdle

\* raw phone strings: a first number, a separator, a second part
Tel1 == <<"8", "5", "6", "7", "8", "0", "5", "7", "5", "8">>
Tel2 == <<"6", "0", "9", "7", "7", "4", "4", "0", "7", "7">>
Tel3 == <<"2", "1", "5", "5", "5", "5", "1", "2", "3", "4">>
FirstParts == {Tel1, <<"1">> \o Tel1, SubSeq(Tel1, 1, 6), <<"+", "4", "4">>}
Separators == {<<" ", "/", " ">>, <<"/">>, <<";">>, <<",">>, <<"|">>, <<" ">>}
SecondParts ==
  {Tel2, <<"1">> \o Tel2, SubSeq(Tel2, 1, 9),
   SubSeq(Tel2, 1, 3) \o <<" ">> \o SubSeq(Tel2, 4, 6) \o <<" ">> \o SubSeq(Tel2, 7, 10),
   SubSeq(Tel1, 7, 10) \o Tel2,
   Tel2 \o <<",", " ">> \o Tel3,
   <<"4", "4", " ", "2", "0", " ", "7", "9", "4", "6", " ", "0", "9", "5", "8">>}
DelimitedPhones == {a \o sep \o b : a \in FirstParts, sep \in Separators, b \in SecondParts}

\* raw phone strings without a delimiter: digit runs of 8 to 22 digits, the
\* run of the special case without and with its "+"
BermanDigits == Tail(BermanRaw)
RunBases == {BermanFirst \o BermanSecond \o Tel3, Tel1 \o Tel2 \o Tel3}
MinRun == 8
MaxRun == 22
DigitRuns == {SubSeq(base, 1, n) : base \in RunBases, n \in MinRun..MaxRun} \cup {BermanDigits}
UndelimitedPhones == DigitRuns \cup {BermanRaw}

\* JavaScript values as the field mappers see them: a string, a number, null,
\* undefined, or an object given by its own properties in insertion order; an
\* array is an object whose property names are its indices
JsString(t) == [kind |-> "string", text |-> t, items |-> <<>>]
JsNumber(t) == [kind |-> "number", text |-> t, items |-> <<>>]
JsNull == [kind |-> "null", text |-> "", items |-> <<>>]
JsUndefined == [kind |-> "undefined", text |-> "", items |-> <<>>]
JsObject(props) == [kind |-> "object", text |-> "", items |-> props]
JsArray(elems) ==
  [kind |-> "array", text |-> "",
   items |-> [i \in 1..Len(elems) |-> [key |-> ToString(i - 1), val |-> elems[i]]]]
TypeError == [kind |-> "throw", text |-> "TypeError", items |-> <<>>]

\* the object { id, value }
IdValue(id, value) ==
  JsObject(<<[key |-> "id", val |-> JsString(id)], [key |-> "value", val |-> value]>>)

\* the characters of the strings the calls pass
CharsOf(t) == IF t = "ab" THEN <<"a", "b">> ELSE <<>>

\* x || {} keeps x unless it is null, undefined, "", 0
Truthy(v) ==
  /\ v.kind \notin {"null", "undefined"}
  /\ ~(v.kind = "string" /\ v.text = "")
  /\ ~(v.kind = "number" /\ v.text = "0")

\* Object.entries(v): the own properties of an object or array, the indexed
\* characters of a string, nothing for a number; null and undefined throw
ObjectEntries(v) ==
  IF v.kind \in {"object", "array"} THEN v.items
  ELSE IF v.kind = "string"
         THEN [i \in 1..Len(CharsOf(v.text)) |->
                 [key |-> ToString(i - 1), val |-> JsString(CharsOf(v.text)[i])]]
  ELSE <<>>

\* .map(([id, value]) => ({ id, value }))
ToIdValues(entries) ==
  JsArray([i \in 1..Len(entries) |-> IdValue(entries[i].key, entries[i].val)])

\* variant: Object.entries(customFields) without the || {}
mapCustomFields_unguarded(customFields) ==
  IF customFields.kind \in {"null", "undefined"} THEN TypeError
  ELSE ToIdValues(ObjectEntries(customFields))

\* lib/utils.ts lines 654-657
mapCustomFields(customFields) ==
  LET o == IF Truthy(customFields) THEN customFields ELSE JsObject(<<>>)
  IN  IF o.kind \in {"null", "undefined"} THEN TypeError
      ELSE ToIdValues(ObjectEntries(o))

\* upsertContactV2 lines 150-163: contactData.customFields made an array
customFieldsArray(customFields) ==
  IF customFields.kind = "array" THEN customFields
  ELSE IF customFields.kind = "object" THEN ToIdValues(ObjectEntries(customFields))
  ELSE JsArray(<<>>)

\* inputs of the field mappers: maps and arrays of { id, value } of up to
\* MaxFields entries, null, undefined, strings, a number
FieldKeys == {"a", "b"}
FieldValues == {JsString("1"), JsString("2")}
MaxFields == 2
KeyLists ==
  {ks \in UNION {[1..n -> FieldKeys] : n \in 0..MaxFields} :
     \A i, j \in DOMAIN ks : i # j => ks[i] # ks[j]}
FieldMaps ==
  {JsObject([i \in DOMAIN ks |-> [key |-> ks[i], val |-> vs[i]]]) :
     <<ks, vs>> \in {kv \in KeyLists \X UNION {[1..n -> FieldValues] : n \in 0..MaxFields} :
                       Len(kv[1]) = Len(kv[2])}}
FieldArrays ==
  {JsArray([i \in DOMAIN ks |-> IdValue(ks[i], vs[i])]) :
     <<ks, vs>> \in {kv \in (UNION {[1..n -> FieldKeys] : n \in 0..MaxFields})
                             \X (UNION {[1..n -> FieldValues] : n \in 0..MaxFields}) :
                       Len(kv[1]) = Len(kv[2])}}
OtherInputs == {JsNull, JsUndefined, JsString(""), JsString("ab"), JsNumber("0"), JsNumber("5")}
MapperInputs == FieldMaps \cup FieldArrays \cup OtherInputs

ApplyMapCustomFields ==
  /\ Pending("mapCustomFields")
  /\ Return(mapCustomFields(fn.arg))
  /\ HandlerIdle

ApplyCustomFieldsArray ==
  /\ Pending("customFieldsArray")
  /\ Return(customFieldsArray(fn.arg))
  /\ HandlerIdle

\* calls of calculateRentTotals: the totals maps over three years, a year, a rent
TotalsYears == {"2024", "2025", "2026"}
Amounts == {0, 500, 1000}
TotalsMaps == UNION {[ys -> Amounts] : ys \in SUBSET TotalsYears}
RentCalls == [rent : Amounts, year : TotalsYears, existingTotals : TotalsMaps]

\* the result, and the caller's object as the call leaves it: the function
\* works on a copy ({ ...existingTotals })
ApplyCalculateRentTotals ==
  /\ Pending("calculateRentTotals")
  /\ LET t == calculateRentTotals(fn.arg.rent, fn.arg.year, fn.arg.existingTotals)
     IN  Return([yearlyTotals |-> t.yearlyTotals,
                 totalLifetimeRent |-> t.totalLifetimeRent,
                 existingTotals |-> fn.arg.existingTotals])
  /\ HandlerIdle

ApplySplitAndFormatPhones ==
  /\ Pending("splitAndFormatPhones")
  /\ Return(splitAndFormatPhones(fn.arg))
  /\ HandlerIdle

\* scripts/create-missing-opps.ts lines 173-207; a contact is given by whether
\* its customFields is an array, and by that array
determineStage(contact) ==
  LET field == IF contact.isArray /\ HasTotalsField(contact.customFields)
                 THEN <<TotalsField(contact.customFields)>> ELSE <<>>
      years == IF field = <<>> THEN {} ELSE DOMAIN JSONparse(field[1].value)
      year == IF years = {} THEN ""
              ELSE CHOOSE y \in years : \A z \in years : YearNumbers[z] <= YearNumbers[y]
  IN  IF year # ""
        THEN IF year = "2026" THEN GHL_STAGES.BOOKED_2026
             ELSE IF year = "2025" THEN GHL_STAGES.BOOKED_2025
             ELSE IF YearNumbers[year] < 2025 THEN GHL_STAGES.PAST_GUEST
             ELSE GHL_STAGES.PAST_GUEST
        ELSE GHL_STAGES.PAST_GUEST

\* contacts of the backfill: the yearly totals over any set of years, the
\* field absent, customFields not an array
BackfillTotals == UNION {[ys -> {1000}] : ys \in SUBSET DOMAIN YearNumbers}
BackfillContacts ==
  {[isArray |-> TRUE,
    customFields |-> <<[id |-> CUSTOM_FIELD_IDS.TENANT_ID, value |-> JSONstringify(EmptyTotals)],
                       [id |-> CUSTOM_FIELD_IDS.YEARLY_RENT_TOTALS, value |-> JSONstringify(T)]>>] :
     T \in BackfillTotals}
  \cup {[isArray |-> a,
         customFields |-> <<[id |-> CUSTOM_FIELD_IDS.TENANT_ID,
                             value |-> JSONstringify(EmptyTotals)]>>] : a \in BOOLEAN}

ApplyDetermineStage ==
  /\ Pending("determineStage")
  /\ Return(determineStage(fn.arg))
  /\ HandlerIdle

\* lib/phone.ts isE164: /^\+\d{10,15}$/
isE164(p) ==
  /\ Len(p) >= 11 /\ Len(p) <= 16
  /\ p[1] = "+"
  /\ \A k \in 2..Len(p) : p[k] \in Digits

\* scripts/patch-phone-format.ts isE164Format: E.164 and, with a +1 prefix,
\* no longer than 12 characters
isE164Format(phone) ==
  IF phone = <<>> THEN FALSE
  ELSE IF ~isE164(phone) THEN FALSE
  ELSE IF phone[1] = "+" /\ phone[2] = "1" /\ Len(phone) > 12 THEN FALSE
  ELSE TRUE

\* the filter of contactsToFix; a contact is its phone and its secondary-phone
\* custom field (hasSecondary: the field exists)
needsFix(contact) ==
  LET needsPrimaryFix == contact.phone # <<>> /\ ~isE164Format(contact.phone)
      needsSecondaryFix == contact.hasSecondary /\ ~isE164Format(contact.secondary)
  IN  needsPrimaryFix \/ needsSecondaryFix

\* the loop body of main for one contact, the update answered 2xx: the contact
\* as the remote store holds it afterwards
patchContact(contact) ==
  LET currentPrimaryPhone == contact.phone
      formatted == IF currentPrimaryPhone # <<>>
                     THEN splitAndFormatPhones(currentPrimaryPhone) ELSE << <<>> >>
      formattedPrimaryPhone == formatted[1]
      formattedSecondaryPhone == IF Len(formatted) >= 2 THEN formatted[2] ELSE <<>>
      fromCurrent == formattedSecondaryPhone = <<>> /\ contact.hasSecondary
                       /\ contact.secondary # <<>>
      secondaryPhone == IF fromCurrent THEN splitAndFormatPhones(contact.secondary)[1]
                        ELSE formattedSecondaryPhone
      \* secondaryPhone !== currentSecondaryPhone: undefined and null differ
      sameSecondary == /\ contact.hasSecondary
                       /\ (fromCurrent \/ formattedSecondaryPhone # <<>>)
                       /\ secondaryPhone = contact.secondary
  IN  IF formattedPrimaryPhone = <<>> THEN contact
      ELSE IF formattedPrimaryPhone # currentPrimaryPhone \/ ~sameSecondary
        THEN [phone |-> formattedPrimaryPhone,
              hasSecondary |-> contact.hasSecondary \/ secondaryPhone # <<>>,
              secondary |-> IF secondaryPhone # <<>> THEN secondaryPhone
                            ELSE contact.secondary]
      ELSE contact

\* one run of the script over one contact
patchPass(contact) == IF needsFix(contact) THEN patchContact(contact) ELSE contact

\* two runs of the script over the same contact; normalized is what
\* splitAndFormatPhones returns for the raw phone, again what it returns for the
\* primary number of that result
ApplyPatchPhoneFormat ==
  /\ Pending("patch-phone-format")
  /\ LET first == patchPass(fn.arg)
         normalized == splitAndFormatPhones(fn.arg.phone)
     IN  Return([first |-> first, second |-> patchPass(first),
                 normalized |-> normalized,
                 again |-> splitAndFormatPhones(normalized[1])])
  /\ HandlerIdle

ApplySelectStage ==
  /\ Pending("selectStage")
  /\ Return(selectStage(fn.arg.year, fn.arg.status))
  /\ HandlerIdle

\* contacts of the phone patch: any raw phone, without a secondary-phone
\* field or with one holding a raw number
PatchContacts ==
  {[phone |-> raw, hasSecondary |-> FALSE, secondary |-> <<>>] :
     raw \in DelimitedPhones \cup UndelimitedPhones}
  \cup {[phone |-> raw, hasSecondary |-> TRUE, secondary |-> sec] :
          raw \in {Tel1, <<"+", "1">> \o Tel1, BermanRaw}, sec \in {Tel2, <<"+", "1">> \o Tel2}}

InitPure ==
  /\ last_run_at = EPOCH_FALLBACK /\ now = 0
  /\ tenants = <<>> /\ contacts = <<>> /\ opportunities = <<>>
  /\ run = [p \in Runs |-> IdleRun]
  /\ runsStarted = 0 /\ faults = 0
  /\ overlap = FALSE /\ missingEnv = {}
  /\ repair = NoRepair /\ legacy = LegacyIdle /\ script = ScriptIdle
  /\ \/ \E y \in StageYears, st \in StageStatuses :
          fn = CallOf("selectStage", [year |-> y, status |-> st])
     \/ \E contact \in BackfillContacts : fn = CallOf("determineStage", contact)
     \/ \E call \in RentCalls : fn = CallOf("calculateRentTotals", call)
     \/ \E v \in MapperInputs, name \in {"mapCustomFields", "customFieldsArray"} :
           fn = CallOf(name, v)
     \/ \E raw \in DelimitedPhones : fn = CallOf("splitAndFormatPhones", raw)
     \/ \E raw \in UndelimitedPhones : fn = CallOf("splitAndFormatPhones", raw)
     \/ \E contact \in PatchContacts : fn = CallOf("patch-phone-format", contact)
     \/ \E m \in Methods, ps \in ParamLists, b \in Bodies :
          fn = CallOf("ghlFetchV2", [method |-> m, params |-> ps, body |-> b])

NextPure ==
  \/ ApplySelectStage
  \/ ApplyGhlFetchV2
  \/ ApplySplitAndFormatPhones
  \/ ApplyCalculateRentTotals
  \/ ApplyDetermineStage
  \/ ApplyPatchPhoneFormat
  \/ ApplyMapCustomFields
  \/ ApplyCustomFieldsArray

SpecPure == InitPure /\ [][NextPure]_vars

\* ------------------------------------------- vocabulary of the properties
HasCall(p, op, id) ==
  \E k \in DOMAIN run[p].calls : run[p].calls[k].op = op /\ run[p].calls[k].id = id

Processed(p, id) ==
  \E k \in DOMAIN run[p].processedTenants : run[p].processedTenants[k].id = id

RowOf(p, id) == CHOOSE r \in {run[p].leases[k] : k \in DOMAIN run[p].leases} : r.id = id

\* max(created_at, last_scraped_at), a NULL column not counting
MaxTs(r) == IF r.last_scraped_at > r.created_at THEN r.last_scraped_at ELSE r.created_at

HasField(fields, id) == \E k \in DOMAIN fields : fields[k].id = id
FieldValue(fields, id) == fields[CHOOSE k \in DOMAIN fields : fields[k].id = id].value

ContactsOfTenant(t) ==
  {c \in DOMAIN contacts :
     /\ HasField(contacts[c].customFields, CUSTOM_FIELD_IDS.TENANT_ID)
     /\ FieldValue(contacts[c].customFields, CUSTOM_FIELD_IDS.TENANT_ID) = ToString(t)}

\* -------------------------------------------------------------- properties

\* C1: the value stored in sync_state.last_run_at never decreases from one
\* step to the next, whatever the runs do and whatever timestamps the rows carry
C1_CheckpointNeverRegresses == [][last_run_at' >= last_run_at]_vars

\* the contact upsert of row k of the invocation was sent and did not return
\* a contact id
UpsertFailed(p, k) ==
  \E c \in DOMAIN run[p].calls :
     /\ run[p].calls[c].op = "upsert"
     /\ run[p].calls[c].id = run[p].leases[k].id
     /\ run[p].calls[c].res # "ok"

\* C2: when an invocation has ended, every row of it whose contact upsert
\* failed is still a candidate under the stored checkpoint (created_at or
\* last_scraped_at at or after it)
C2_FailedRowsStayCandidates ==
  \A p \in Runs :
    run[p].pc = "done" =>
      \A k \in DOMAIN run[p].leases :
        UpsertFailed(p, k) => IsCandidate(run[p].leases[k], last_run_at)

\* C3: an invocation that answers "No new tenants" has written the checkpoint
C3_ZeroCandidateRunWrites ==
  \A p \in Runs : run[p].response.text = "No new tenants" => run[p].writes >= 1

C5_RowFailuresIsolated ==
  \A p \in Runs :
    /\ \A k \in DOMAIN run[p].leases :
          k < run[p].i =>
            \/ run[p].leases[k].id \in run[p].thrown
            \/ HasCall(p, "upsert", run[p].leases[k].id)
    /\ (run[p].pc \in {"checkpoint", "done"} /\ run[p].leases # <<>>) =>
          run[p].i = Len(run[p].leases) + 1
    /\ (run[p].pc = "done" /\ run[p].leases # <<>>) => run[p].writes = 1

\* the first row threw or failed its upsert, the second row was upserted and
\* counted, and the checkpoint step ran
C5_Witness ==
  \E p \in Runs :
    /\ run[p].pc = "done" /\ Len(run[p].leases) = 2 /\ run[p].writes = 1
    /\ \/ run[p].leases[1].id \in run[p].thrown
       \/ UpsertFailed(p, 1)
    /\ HasCall(p, "upsert", run[p].leases[2].id)
    /\ Processed(p, run[p].leases[2].id)

\* C6: a row whose contact upsert failed (non-2xx, network error, or no id in
\* the answer) gets no opportunity create and is not in processedTenants
C6_FailedUpsertSkipsRow ==
  \A p \in Runs :
    \A c \in DOMAIN run[p].calls :
      (run[p].calls[c].op = "upsert" /\ run[p].calls[c].res # "ok") =>
        /\ ~HasCall(p, "opportunity", run[p].calls[c].id)
        /\ ~Processed(p, run[p].calls[c].id)

\* a finished run in which one row's upsert answered without an id and the
\* other row was counted
C6_Witness ==
  \E p \in Runs :
    /\ run[p].response.text = "Synced N tenants"
    /\ Len(run[p].processedTenants) = 1
    /\ \E c \in DOMAIN run[p].calls :
          run[p].calls[c].op = "upsert" /\ run[p].calls[c].res = "noid"

\* C7: a row whose opportunity create failed is in processedTenants, its
\* contact is still in the CRM, and after "Synced N tenants" the checkpoint is
\* not below the row's timestamps
C7_FailedOpportunityStillCounts ==
  \A p \in Runs :
    \A c \in DOMAIN run[p].calls :
      (run[p].calls[c].op = "opportunity" /\ run[p].calls[c].res = "fail") =>
        /\ Processed(p, run[p].calls[c].id)
        /\ ContactsOfTenant(run[p].calls[c].id) # {}
        /\ run[p].response.text = "Synced N tenants" =>
              last_run_at >= MaxTs(RowOf(p, run[p].calls[c].id))

\* a run that answered "Synced N tenants" for a single counted row whose
\* opportunity create failed
C7_Witness ==
  \E p \in Runs :
    /\ run[p].response.text = "Synced N tenants"
    /\ Len(run[p].processedTenants) = 1
    /\ \E c \in DOMAIN run[p].calls :
          /\ run[p].calls[c].op = "opportunity" /\ run[p].calls[c].res = "fail"
          /\ run[p].calls[c].id = run[p].processedTenants[1].id
    /\ opportunities = <<>>

\* C8: when the resolved contact carries, under the configured field id, the
\* yearly totals T written earlier, the yearly totals about to be written are
\* T with the row's rent added to the row's year and every other year kept
C8_TotalsMergedWithExisting ==
  \A p \in Runs :
    (/\ run[p].pc = "upsert"
     /\ run[p].existing # <<>>
     /\ HasField(run[p].existing[1].customFields, CUSTOM_FIELD_IDS.YEARLY_RENT_TOTALS)) =>
       LET T == JSONparse(FieldValue(run[p].existing[1].customFields,
                                     CUSTOM_FIELD_IDS.YEARLY_RENT_TOTALS))
           W == JSONparse(FieldValue(run[p].contact.customField,
                                     CUSTOM_FIELD_IDS.YEARLY_RENT_TOTALS))
           y == YearOf(CurRow(p))
       IN  /\ DOMAIN W = DOMAIN T \cup {y}
           /\ \A k \in DOMAIN W :
                 W[k] = IF k = y
                          THEN (IF y \in DOMAIN T THEN T[y] ELSE 0) + Number(CurRow(p).rent)
                          ELSE T[k]

\* C9: at most one remote contact carries a given tenant id
C9_OneContactPerTenant ==
  \A t \in TenantIds : Cardinality(ContactsOfTenant(t)) <= 1

\* the lookups of the cascade, in its order
LookupOps == <<"lookup_email", "lookup_phone", "query_confirmation", "query_tenant_id">>

\* whether the row has the key the k-th lookup needs
HasKey(r, k) ==
  CASE k = 1 -> r.tenant_email # ""
    [] k = 2 -> PhoneFields(r.tenant_phone).phone # <<>>
    [] k = 3 -> r.confirmation_number # ""
    [] k = 4 -> TRUE

FoundBy(p, id, k) ==
  \E c \in DOMAIN run[p].calls :
     /\ run[p].calls[c].op = LookupOps[k]
     /\ run[p].calls[c].id = id
     /\ run[p].calls[c].res = "found"

\* C10: the lookups of a row appear in the log in the order email, phone,
\* confirmation code, tenant id; none follows a lookup that returned a contact;
\* and once the cascade of a row is over, the k-th lookup was sent exactly when
\* the row has its key and no earlier lookup returned a contact
C10_CascadeOrderAndShortCircuit ==
  \A p \in Runs :
    /\ \A a, b \in DOMAIN run[p].calls :
          (a < b /\ run[p].calls[a].id = run[p].calls[b].id) =>
            \A j, k \in 1..4 :
              (run[p].calls[a].op = LookupOps[j] /\ run[p].calls[b].op = LookupOps[k]) =>
                 j < k /\ run[p].calls[a].res # "found"
    /\ \A i \in DOMAIN run[p].leases :
          LET r == run[p].leases[i]
          IN  (/\ Number(r.rent) > 0 /\ YearOf(r) # "" /\ r.id \notin run[p].thrown
               /\ (i < run[p].i \/ (i = run[p].i /\ run[p].pc \in {"upsert", "opportunity"}))) =>
                \A k \in 1..4 :
                  HasCall(p, LookupOps[k], r.id) <=>
                    (HasKey(r, k) /\ \A j \in 1..(k - 1) : ~FoundBy(p, r.id, j))

\* a cascade in which the email lookup found nothing, the phone lookup
\* returned a contact and neither query was sent
C10_Witness ==
  \E p \in Runs :
    /\ run[p].pc = "upsert"
    /\ \E c \in DOMAIN run[p].calls :
          run[p].calls[c].op = "lookup_email" /\ run[p].calls[c].res # "found"
    /\ FoundBy(p, CurRow(p).id, 2)
    /\ CurRow(p).confirmation_number # ""
    /\ ~HasCall(p, "query_confirmation", CurRow(p).id)
    /\ ~HasCall(p, "query_tenant_id", CurRow(p).id)

\* the cascade of row i of the invocation is over
CascadeOver(p, i) ==
  \/ i < run[p].i
  \/ (i = run[p].i /\ run[p].pc \in {"upsert", "opportunity"})

LookupFailed(p, id, k) ==
  \E c \in DOMAIN run[p].calls :
     /\ run[p].calls[c].op = LookupOps[k]
     /\ run[p].calls[c].id = id
     /\ run[p].calls[c].res = "fail"

\* C11: a lookup that failed (non-2xx or network error) counts as "no match":
\* once the cascade of the row is over, every later lookup whose key the row
\* has was sent unless a lookup in between returned a contact, the row did not
\* land in the row-level catch, and once the row is behind the loop position
\* its contact upsert was sent
C11_FailedLookupIsNoMatch ==
  \A p \in Runs :
    \A i \in DOMAIN run[p].leases :
      \A k \in 1..4 :
        LET r == run[p].leases[i]
        IN  (LookupFailed(p, r.id, k) /\ CascadeOver(p, i)) =>
              /\ \A m \in (k + 1)..4 :
                    (HasKey(r, m) /\ \A j \in 1..(m - 1) : ~FoundBy(p, r.id, j)) =>
                       HasCall(p, LookupOps[m], r.id)
              /\ r.id \notin run[p].thrown
              /\ i < run[p].i => HasCall(p, "upsert", r.id)

\* a row whose email lookup failed, whose phone lookup was then sent, and whose
\* contact upsert returned an id
C11_Witness ==
  \E p \in Runs :
    \E i \in DOMAIN run[p].leases :
      /\ i < run[p].i
      /\ LookupFailed(p, run[p].leases[i].id, 1)
      /\ HasCall(p, "lookup_phone", run[p].leases[i].id)
      /\ \E c \in DOMAIN run[p].calls :
            /\ run[p].calls[c].op = "upsert" /\ run[p].calls[c].res = "ok"
            /\ run[p].calls[c].id = run[p].leases[i].id

\* the invocation ended with every candidate row in processedTenants and the
\* checkpoint written
FullySynced(p) ==
  /\ run[p].pc = "done"
  /\ run[p].response.text = "Synced N tenants"
  /\ Len(run[p].processedTenants) = Len(run[p].leases)

\* C12: when an invocation starts right after one that processed every
\* candidate row and wrote the checkpoint (the table is never modified), the
\* checkpoint it reads selects no row, so that its candidate query is empty
C12_SyncedRowsNotRefetched ==
  [][\A p \in Runs :
       (FullySynced(p) /\ run'[p].pc = "query") =>
          \A t \in DOMAIN tenants : ~IsCandidate(tenants[t], run'[p].sinceISO)]_vars

\* C13: when a row is processed again and the contact resolved for it carries
\* the yearly totals written by the earlier run, the total about to be written
\* for the row's year is the earlier total plus the row's rent
C13_ReprocessingDoubleCounts ==
  \A p \in Runs :
    (/\ run[p].pc = "upsert"
     /\ run[p].existing # <<>>
     /\ HasField(run[p].existing[1].customFields, CUSTOM_FIELD_IDS.YEARLY_RENT_TOTALS)
     /\ YearOf(CurRow(p)) \in
           DOMAIN JSONparse(FieldValue(run[p].existing[1].customFields,
                                       CUSTOM_FIELD_IDS.YEARLY_RENT_TOTALS))) =>
       LET y == YearOf(CurRow(p))
           first == JSONparse(FieldValue(run[p].existing[1].customFields,
                                         CUSTOM_FIELD_IDS.YEARLY_RENT_TOTALS))[y]
           second == JSONparse(FieldValue(run[p].contact.customField,
                                          CUSTOM_FIELD_IDS.YEARLY_RENT_TOTALS))[y]
       IN  second = first + Number(CurRow(p).rent)

NumCalls(p, op, id) ==
  Cardinality({c \in DOMAIN run[p].calls :
                 run[p].calls[c].op = op /\ run[p].calls[c].id = id})

UpsertOk(p, id) ==
  \E c \in DOMAIN run[p].calls :
     run[p].calls[c].op = "upsert" /\ run[p].calls[c].id = id /\ run[p].calls[c].res = "ok"

\* the external reference of the row's opportunity
ExternalRef(r) ==
  IF r.confirmation_number # "" THEN r.confirmation_number ELSE "tenant-" \o ToString(r.id)

OkCreates(p) ==
  Cardinality({c \in DOMAIN run[p].calls :
                 run[p].calls[c].op = "opportunity" /\ run[p].calls[c].res = "ok"})

C15_ConfigurationErrorIsFatal ==
  missingEnv # {} =>
    /\ \A p \in Runs :
         /\ run[p].pc \in {"idle", "done"}
         /\ run[p].pc = "done" => run[p].response.status = 500
         /\ run[p].calls = <<>>
         /\ run[p].writes = 0
    /\ last_run_at = EPOCH_FALLBACK
    /\ contacts = <<>> /\ opportunities = <<>>

\* C16: an invocation whose candidate query failed answered 500, has no
\* candidate row, no processed row, sent no remote call and no checkpoint
\* write, and the stored checkpoint is the one it read
C16_QueryFailureLeavesCheckpoint ==
  \A p \in Runs :
    run[p].response.text = "Supabase read failed" =>
      /\ run[p].pc = "done" /\ run[p].response.status = 500
      /\ run[p].leases = <<>> /\ run[p].processedTenants = <<>>
      /\ run[p].calls = <<>>
      /\ run[p].writes = 0
      /\ last_run_at = run[p].sinceISO

\* the query failed in an invocation that had rows to fetch, after an earlier
\* one had moved the checkpoint
C16_Witness ==
  \E p \in Runs :
    /\ run[p].response.text = "Supabase read failed"
    /\ last_run_at > EPOCH_FALLBACK
    /\ \E t \in DOMAIN tenants : IsCandidate(tenants[t], run[p].sinceISO)
    /\ contacts # <<>>

CheckpointWriteFailed(p) ==
  run[p].response.text \in {"Synced N tenants but failed to update checkpoint",
                            "Processed 0 tenants but failed to update checkpoint"}

\* C17: an invocation whose checkpoint write failed answered 500 with every
\* candidate row behind the loop position; the stored checkpoint is the one
\* the invocation read; the contact of every processed row and the
\* opportunities created are in the CRM; and every candidate row of the
\* invocation is a candidate under the stored checkpoint
C17_CheckpointWriteFailure ==
  \A p \in Runs :
    CheckpointWriteFailed(p) =>
      /\ run[p].pc = "done" /\ run[p].response.status = 500
      /\ run[p].i = Len(run[p].leases) + 1
      /\ run[p].writes = 1
      /\ last_run_at = run[p].sinceISO
      /\ \A k \in DOMAIN run[p].processedTenants :
            ContactsOfTenant(run[p].processedTenants[k].id) # {}
      /\ Len(opportunities) = run[p].oppsBefore + OkCreates(p)
      /\ \A k \in DOMAIN run[p].leases : IsCandidate(run[p].leases[k], last_run_at)

\* the write failed after two rows were synced: their contacts and
\* opportunities are in the CRM and the checkpoint is behind their timestamps
C17_Witness ==
  \E p \in Runs :
    /\ run[p].response.text = "Synced N tenants but failed to update checkpoint"
    /\ Len(run[p].processedTenants) = 2
    /\ Len(contacts) = 2 /\ Len(opportunities) = 2
    /\ \A k \in DOMAIN run[p].processedTenants :
          MaxTs(run[p].processedTenants[k]) > last_run_at

\* the position of a row in the candidate list of the invocation
PosOf(p, id) == CHOOSE k \in DOMAIN run[p].leases : run[p].leases[k].id = id

\* lookups come before the upsert, the upsert before the opportunity create
OpRank(op) ==
  CASE op = "lookup_email" -> 1 [] op = "lookup_phone" -> 2
    [] op = "query_confirmation" -> 3 [] op = "query_tenant_id" -> 4
    [] op = "upsert" -> 5 [] op = "opportunity" -> 6

\* C18: the candidate list is in ascending created_at order; in the log of
\* remote calls no call of a row comes after a call of a later row, and the
\* calls of one row come as lookups, then upsert, then opportunity create; a
\* call is only sent for the row under the loop position; and the checkpoint
\* write is sent once, when every row is behind the loop position
C18_RowsInOrderOneAtATime ==
  \A p \in Runs :
    /\ \A a, b \in DOMAIN run[p].leases :
          a < b => run[p].leases[a].created_at <= run[p].leases[b].created_at
    /\ \A a, b \in DOMAIN run[p].calls :
          a < b =>
            /\ PosOf(p, run[p].calls[a].id) <= PosOf(p, run[p].calls[b].id)
            /\ run[p].calls[a].id = run[p].calls[b].id =>
                  OpRank(run[p].calls[a].op) < OpRank(run[p].calls[b].op)
    /\ \A c \in DOMAIN run[p].calls : PosOf(p, run[p].calls[c].id) <= run[p].i
    /\ run[p].writes <= 1
    /\ run[p].writes = 1 =>
          run[p].pc = "done" /\ run[p].i = Len(run[p].leases) + 1

\* two rows created at different times, each with a lookup, an upsert and an
\* opportunity create in the log, and the checkpoint written
C18_Witness ==
  \E p \in Runs :
    /\ run[p].writes = 1 /\ Len(run[p].leases) = 2
    /\ run[p].leases[1].created_at < run[p].leases[2].created_at
    /\ \A k \in 1..2 :
          /\ HasCall(p, "lookup_email", run[p].leases[k].id)
          /\ HasCall(p, "upsert", run[p].leases[k].id)
          /\ HasCall(p, "opportunity", run[p].leases[k].id)

\* the step is the contact upsert of the invocation, answered with an id
UpsertStepOk(p) ==
  /\ run[p].pc = "upsert"
  /\ Len(run'[p].calls) = Len(run[p].calls) + 1
  /\ run'[p].calls[Len(run'[p].calls)].res = "ok"

ParseableYear(year) == year \in DOMAIN YearNumbers

\* C20: a lookup is sent for a row, and a yearly-totals or lifetime-total field
\* is on the contact about to be upserted, only when the row's rent is above 0
\* and its check-in year is present and is a year
C20_RentGuard ==
  \A p \in Runs :
    /\ \A c \in DOMAIN run[p].calls :
          OpRank(run[p].calls[c].op) <= 4 =>
            LET r == RowOf(p, run[p].calls[c].id)
            IN  Number(r.rent) > 0 /\ ParseableYear(YearOf(r))
    /\ (/\ run[p].pc = "upsert"
        /\ \/ HasField(run[p].contact.customField, CUSTOM_FIELD_IDS.YEARLY_RENT_TOTALS)
           \/ HasField(run[p].contact.customField, CUSTOM_FIELD_IDS.TOTAL_LIFETIME_RENT)) =>
          Number(CurRow(p).rent) > 0 /\ ParseableYear(YearOf(CurRow(p)))

RECURSIVE OpsOf(_)
OpsOf(calls) == IF calls = <<>> THEN <<>> ELSE <<Head(calls).op>> \o OpsOf(Tail(calls))

\* every lookup of the invocation answered "no contact" and every write
\* returned normally
NoContactNoFailure(p) ==
  \A c \in DOMAIN run[p].calls :
     run[p].calls[c].res = IF OpRank(run[p].calls[c].op) <= 4 THEN "none" ELSE "ok"

\* C22: for the row {id 42, a@b.com, ["2036718335"], rent "1200", check-in
\* 2025-07-18}, an invocation that ended with the row behind it, no contact
\* found and no remote failure sent the lookups, one contact create and one
\* opportunity create, in that order; the contact has primary phone
\* "+12036718335", tenant-id field "42", yearly totals {"2025": 1200} and
\* lifetime total "1200"; the opportunity has the booked-2025 stage, value 1200
\* and that contact's id; and the row is in processedTenants
C22_EndToEndScenario ==
  \A p \in Runs :
    (/\ run[p].pc = "done" /\ run[p].leases # <<>>
     /\ run[p].thrown = {}
     /\ NoContactNoFailure(p)) =>
       /\ OpsOf(run[p].calls) =
            <<"lookup_email", "lookup_phone", "query_tenant_id", "upsert", "opportunity">>
       /\ LET c == contacts[Len(contacts)]
               o == opportunities[Len(opportunities)]
           IN  /\ c.email = "a@b.com"
               /\ c.phone = <<"+", "1", "2", "0", "3", "6", "7", "1", "8", "3", "3", "5">>
               /\ FieldValue(c.customFields, "cf_tenant_id") = "42"
               /\ JSONparse(FieldValue(c.customFields, "cf_yearly_rent_totals_json"))
                     = [y \in {"2025"} |-> 1200]
               /\ FieldValue(c.customFields, "cf_total_lifetime_rent") = "1200"
               /\ ~HasField(c.customFields, "cf_secondary_phone")
               /\ o = [externalId |-> "tenant-42", stageId |-> "stage_booked_2025",
                       monetaryValue |-> 1200, contactId |-> c.id]
               /\ Len(opportunities) = run[p].oppsBefore + 1
       /\ Processed(p, 42)
       /\ Len(run[p].processedTenants) = 1

\* the first invocation went through without a failure: one contact, one
\* opportunity, and the answer "Synced N tenants"
C22_Witness ==
  \E p \in Runs :
    /\ run[p].pc = "done" /\ run[p].leases # <<>>
    /\ run[p].thrown = {} /\ NoContactNoFailure(p)
    /\ run[p].response.text = "Synced N tenants"
    /\ Len(contacts) = 1 /\ Len(opportunities) = 1
    /\ faults = 0

\* no row of the table passes the filter of the invocation
NoCandidates(p) == \A t \in DOMAIN tenants : ~IsCandidate(tenants[t], run[p].sinceISO)

ErrorTexts ==
  {"Configuration error: Missing critical environment variables",
   "Configuration error: Missing GHL IDs",
   "Error fetching checkpoint",
   "Supabase read failed",
   "Synced N tenants but failed to update checkpoint",
   "Processed 0 tenants but failed to update checkpoint"}

\* C23: an invocation that ended has one answer, of status 200 or 500; among
\* the answers of status 200, "No new tenants" is given exactly when no row
\* passed the filter, "Synced N tenants" exactly when at least one row was
\* counted, "Processed 0 tenants successfully" exactly when rows were fetched
\* and none was counted; the rows counted are those whose contact upsert
\* returned an id; a 200 answer after rows were fetched means the checkpoint
\* write was sent; and status 500 comes only with a configuration, database
\* read or checkpoint write error
C23_Responses ==
  \A p \in Runs :
    run[p].pc = "done" =>
      LET ok == run[p].response.status = 200
          text == run[p].response.text
          N == Len(run[p].processedTenants)
      IN  /\ run[p].response.status \in {200, 500}
          /\ text = "No new tenants" <=> (ok /\ NoCandidates(p))
          /\ text = "Synced N tenants" <=> (ok /\ N >= 1)
          /\ text = "Processed 0 tenants successfully" <=>
                (ok /\ run[p].leases # <<>> /\ N = 0)
          /\ N = Cardinality({k \in DOMAIN run[p].leases : UpsertOk(p, run[p].leases[k].id)})
          /\ (ok /\ run[p].leases # <<>>) => run[p].writes = 1
          /\ ~ok <=> text \in ErrorTexts
          /\ text \in {"Configuration error: Missing critical environment variables",
                        "Configuration error: Missing GHL IDs"} <=> ConfigurationError # ""

\* the answer "Synced N tenants" for one counted row whose opportunity create
\* had failed
C23_Witness ==
  \E p \in Runs :
    /\ run[p].pc = "done"
    /\ run[p].response = [status |-> 200, text |-> "Synced N tenants"]
    /\ Len(run[p].processedTenants) = 1
    /\ \E c \in DOMAIN run[p].calls :
          run[p].calls[c].op = "opportunity" /\ run[p].calls[c].res = "fail"

\* number of query parameters named locationId
LocationParams(ps) == Cardinality({k \in DOMAIN ps : ps[k] = "locationId"})

\* the GET half: afterwards the URL has the parameter once, and a URL that had
\* it is unchanged
GetCarriesLocation ==
  /\ LocationParams(fn.result.params) = 1
  /\ LocationParams(fn.arg.params) = 1 => fn.result.params = fn.arg.params
  /\ LocationParams(fn.arg.params) = 0 =>
        fn.result.params = Append(fn.arg.params, "locationId")
  /\ fn.result.body = fn.arg.body

\* the body half: afterwards a JSON body has a location id, and a body that
\* had a non-empty one is unchanged
BodyCarriesLocation ==
  /\ fn.result.body.kind = "json"
  /\ fn.result.body.has /\ fn.result.body.locationId # ""
  /\ fn.arg.body.locationId # "" => fn.result.body = fn.arg.body
  /\ fn.arg.body.locationId = "" => fn.result.body.locationId = LOCATION_ID
  /\ fn.result.params = fn.arg.params

\* C24 as stated: the location id is appended to the URL of a GET that lacks
\* it and added to the JSON body of a POST and of a PUT that lacks it
C24_LocationOnGetPostPut ==
  Returned("ghlFetchV2") =>
    /\ fn.result.method = fn.arg.method
    /\ fn.arg.method = "GET" => GetCarriesLocation
    /\ (fn.arg.method \in {"POST", "PUT"} /\ fn.arg.body.kind = "json") =>
          BodyCarriesLocation

\* C24 amended: the location id is appended to the URL of a GET that lacks it
\* and added to the JSON body of a POST that lacks it; every other request (a
\* PUT, a DELETE, a POST with no body or with a body that is no JSON) is
\* handed to fetch as it came
C24_LocationOnGetPost ==
  Returned("ghlFetchV2") =>
    /\ fn.result.method = fn.arg.method
    /\ fn.arg.method = "GET" => GetCarriesLocation
    /\ (fn.arg.method = "POST" /\ fn.arg.body.kind = "json") => BodyCarriesLocation
    /\ ~(\/ fn.arg.method = "GET"
         \/ (fn.arg.method = "POST" /\ fn.arg.body.kind = "json")) =>
          /\ fn.result.params = fn.arg.params
          /\ fn.result.body = fn.arg.body

\* a PUT whose JSON body has no location id went out unchanged
C24_Witness ==
  /\ Returned("ghlFetchV2")
  /\ fn.arg.method = "PUT"
  /\ fn.arg.body = JsonBody(FALSE, "")
  /\ fn.result.body = JsonBody(FALSE, "")

HasDelimiter(raw) == \E k \in DOMAIN raw : raw[k] \in Delims

\* <<primary>> when the secondary is empty, else <<primary, secondary>>
PhonePair(primary, secondary) ==
  IF secondary = <<>> THEN <<primary>> ELSE <<primary, secondary>>

\* C26 as stated: a raw string with a delimiter is cut at the first delimiter;
\* the primary is the E.164 form of what comes before it, the secondary the
\* E.164 form of what comes after it
C26_SplitAtFirstDelimiter ==
  (Returned("splitAndFormatPhones") /\ HasDelimiter(fn.arg)) =>
    LET k == CHOOSE i \in DOMAIN fn.arg :
               fn.arg[i] \in Delims /\ \A j \in 1..(i - 1) : fn.arg[j] \notin Delims
        before == SubSeq(fn.arg, 1, k - 1)
        after == SubSeq(fn.arg, k + 1, Len(fn.arg))
    IN  fn.result = PhonePair(toE164(digitsOnly(before)), toE164(digitsOnly(after)))

\* a maximal delimiter-free stretch raw[i..j] that holds a digit
IsPiece(raw, i, j) ==
  /\ i <= j
  /\ \A k \in i..j : raw[k] \notin Delims
  /\ \E k \in i..j : raw[k] \in Digits
  /\ (i = 1 \/ raw[i - 1] \in Delims)
  /\ (j = Len(raw) \/ raw[j + 1] \in Delims)

PieceStarts(raw) == {i \in DOMAIN raw : \E j \in DOMAIN raw : IsPiece(raw, i, j)}

PieceAt(raw, i) == SubSeq(raw, i, CHOOSE j \in DOMAIN raw : IsPiece(raw, i, j))

\* the E.164 form of the n-th piece, <<>> when there is none
PieceE164(raw, n) ==
  LET starts == PieceStarts(raw)
      nth == {i \in starts : Cardinality({h \in starts : h < i}) = n - 1}
  IN  IF nth = {} THEN <<>>
      ELSE toE164(digitsOnly(PieceAt(raw, CHOOSE i \in nth : TRUE)))

\* C26 amended: when all the digits of the string, delimiters dropped, are two
\* national numbers in a row (10 digits, or 11 starting with 1, each), those
\* two are returned; otherwise the string is cut at every run of delimiters and
\* the E.164 forms of the first two pieces holding a digit are returned, the
\* second only when it is not empty
C26_SplitAtDelimiters ==
  (Returned("splitAndFormatPhones") /\ HasDelimiter(fn.arg)) =>
    LET D == digitsOnly(fn.arg)
        lens == {n \in {10, 11} :
                   /\ Len(D) - n \in {10, 11}
                   /\ n = 11 => D[1] = "1"
                   /\ Len(D) - n = 11 => D[n + 1] = "1"}
    IN  IF lens # {}
          THEN LET n == CHOOSE m \in lens : \A h \in lens : m <= h
               IN  fn.result = <<toE164(SubSeq(D, 1, n)), toE164(SubSeq(D, n + 1, Len(D)))>>
          ELSE fn.result = PhonePair(PieceE164(fn.arg, 1), PieceE164(fn.arg, 2))

\* "8567805758 / 6097744077" gave +18567805758 and +16097744077
C26_Witness ==
  /\ Returned("splitAndFormatPhones")
  /\ fn.arg = Tel1 \o <<" ", "/", " ">> \o Tel2
  /\ fn.result = << <<"+", "1">> \o Tel1, <<"+", "1">> \o Tel2 >>

\* C27: normalizing the undelimited digit run "185678057586097" returns the
\* primary "+18567805758" and the secondary "+16097744077"
C27_ConcatenatedExample ==
  (Returned("splitAndFormatPhones") /\ fn.arg = BermanDigits) =>
    fn.result = << <<"+">> \o BermanFirst, <<"+">> \o BermanSecond >>

IsDigitRun(raw) == \A k \in DOMAIN raw : raw[k] \in Digits

\* the run splits at offset n into two national numbers
ValidSplitAt(d, n) ==
  /\ Len(d) - n \in {10, 11}
  /\ n = 11 => d[1] = "1"
  /\ Len(d) - n = 11 => d[n + 1] = "1"

Unsplittable(raw) ==
  /\ IsDigitRun(raw)
  /\ Len(raw) >= 10
  /\ ~ValidSplitAt(raw, 10)
  /\ ~ValidSplitAt(raw, 11)

MaxE164Digits == 15

AmountOf(E, y) == IF y \in DOMAIN E THEN E[y] ELSE 0

\* the sum of a totals map, year by year over the years the calls use
TotalOf(E) == AmountOf(E, "2024") + AmountOf(E, "2025") + AmountOf(E, "2026")

Totals2025 == [y \in {"2025"} |-> 1000]
Totals2025And2026 == [y \in {"2025", "2026"} |-> IF y = "2025" THEN 1000 ELSE 500]

\* C29: for an existing totals map E, a year y and an amount a the accumulator
\* returns updated with updated[y] = E[y] (0 if absent) + a and updated[k] =
\* E[k] for every other year, and a lifetime total that is the sum of the
\* values of updated; E is left as it was. accumulate({}, "2025", 1000) gives
\* {"2025":1000} and 1000; accumulate({"2025":1000}, "2026", 500) gives
\* {"2025":1000,"2026":500} and 1500
C29_Accumulator ==
  Returned("calculateRentTotals") =>
    LET E == fn.arg.existingTotals
        y == fn.arg.year
        a == fn.arg.rent
        updated == fn.result.yearlyTotals
    IN  /\ DOMAIN updated = DOMAIN E \cup {y}
        /\ updated[y] = AmountOf(E, y) + a
        /\ \A k \in DOMAIN E \ {y} : updated[k] = E[k]
        /\ fn.result.totalLifetimeRent = TotalOf(updated)
        /\ fn.result.existingTotals = E
        /\ (E = EmptyTotals /\ y = "2025" /\ a = 1000) =>
             (updated = Totals2025 /\ fn.result.totalLifetimeRent = 1000)
        /\ (E = Totals2025 /\ y = "2026" /\ a = 500) =>
             (updated = Totals2025And2026 /\ fn.result.totalLifetimeRent = 1500)

\* accumulate({"2025":1000}, "2026", 500) returned {"2025":1000,"2026":500}, 1500
C29_Witness ==
  /\ Returned("calculateRentTotals")
  /\ fn.arg = [rent |-> 500, year |-> "2026", existingTotals |-> Totals2025]
  /\ fn.result.yearlyTotals = Totals2025And2026
  /\ fn.result.totalLifetimeRent = 1500

\* an array whose elements are all objects { id, value }
IsIdValueArray(v) ==
  /\ v.kind = "array"
  /\ \A i \in DOMAIN v.items :
       /\ v.items[i].val.kind = "object"
       /\ Len(v.items[i].val.items) = 2
       /\ v.items[i].val.items[1].key = "id"
       /\ v.items[i].val.items[2].key = "value"

\* the array out holds exactly one { id, value } for every property of the map
OneEntryPerKey(map, out) ==
  /\ IsIdValueArray(out)
  /\ Len(out.items) = Len(map.items)
  /\ \A i \in DOMAIN map.items :
       Cardinality({j \in DOMAIN out.items :
                      /\ out.items[j].val.items[1].val = JsString(map.items[i].key)
                      /\ out.items[j].val.items[2].val = map.items[i].val}) = 1

\* the parts of the field-mapper contract that do not concern arrays
MapperContract ==
  /\ fn.arg.kind = "object" => OneEntryPerKey(fn.arg, fn.result)
  /\ fn.arg.kind \in {"null", "undefined"} => fn.result = JsArray(<<>>)
  /\ fn.result.kind = "array"

\* C30 as stated: both field-mapping conversions return an array of
\* { id, value } unchanged, turn a map into one { id, value } per key, turn
\* null and undefined into an empty array, and never throw
C30_BothMappersPassArrays ==
  (Returned("mapCustomFields") \/ Returned("customFieldsArray")) =>
    /\ MapperContract
    /\ IsIdValueArray(fn.arg) => fn.result = fn.arg

\* C30 amended: both conversions turn a map into one { id, value } per key,
\* turn null and undefined into an empty array and never throw; the
\* conversion inside upsertContactV2 returns an array unchanged, while
\* mapCustomFields treats an array as a map keyed by index: element i of the
\* result is { id: i as text, value: element i of the input }
C30_OnlyUpsertPassesArrays ==
  /\ Returned("customFieldsArray") =>
       /\ MapperContract
       /\ fn.arg.kind = "array" => fn.result = fn.arg
  /\ Returned("mapCustomFields") =>
       /\ MapperContract
       /\ fn.arg.kind = "array" =>
            /\ Len(fn.result.items) = Len(fn.arg.items)
            /\ \A i \in DOMAIN fn.arg.items :
                 fn.result.items[i].val = IdValue(ToString(i - 1), fn.arg.items[i].val)

\* mapCustomFields returned for [{ id: "a", value: "1" }] and wrapped it
C30_Witness ==
  /\ Returned("mapCustomFields")
  /\ fn.arg = JsArray(<<IdValue("a", JsString("1"))>>)
  /\ fn.result = JsArray(<<IdValue("0", IdValue("a", JsString("1")))>>)

RemoteOps == {LookupOps[k] : k \in DOMAIN LookupOps} \cup {"upsert", "opportunity"}

\* C25: no remote call is retried: within one run every logical call of a row
\* (each lookup step, the contact upsert, the opportunity create) is sent at
\* most once, also when it failed, and the failure stays a failure
C25_NoAutomaticRetry ==
  \A p \in Runs :
    /\ \A c \in DOMAIN run[p].calls : run[p].calls[c].op \in RemoteOps
    /\ \A a, b \in DOMAIN run[p].calls :
         (run[p].calls[a].op = run[p].calls[b].op /\ run[p].calls[a].id = run[p].calls[b].id)
           => a = b

\* a call of a row failed and the run sent later calls, none of them the same
C25_Witness ==
  \E p \in Runs :
    \E a, b \in DOMAIN run[p].calls :
      /\ a < b
      /\ run[p].calls[a].res = "fail"
      /\ run[p].calls[a].id = run[p].calls[b].id
      /\ run[p].calls[a].op = "lookup_email"
      /\ NumCalls(p, "lookup_email", run[p].calls[a].id) = 1

\* the ids of the rows the candidate query of the invocation returned
CandidateIds(p) == {run[p].leases[k].id : k \in DOMAIN run[p].leases}

\* the candidate query of the invocation has answered without an error
Queried(p) ==
  /\ run[p].pc \notin {"idle", "query"}
  /\ run[p].response.status # 500 \/ run[p].writes >= 1

\* C31: the repair script stamped the tenants of S with the current time
\* after a run that synced every candidate row and wrote the checkpoint, when
\* no stored timestamp was ahead of the clock; the candidates of the run that
\* follows are exactly the tenants of S
C31_RepairSelectsExactlyS ==
  (/\ repair.done
   /\ repair.inFlight = {}
   /\ "r1" \in repair.synced
   /\ runsStarted = repair.runsBefore + 1
   /\ \A t \in DOMAIN tenants : MaxTs(tenants[t]) <= now
   /\ Queried("r1")) =>
     CandidateIds("r1") = repair.S

\* C32: a row stamped with the current time while an invocation was past its
\* candidate query is a candidate under the checkpoint that invocation wrote
C32_TouchedMidRunStaysCandidate ==
  \A p \in Runs :
    (/\ repair.done
     /\ p \in repair.inFlight
     /\ runsStarted = repair.runsBefore
     /\ run[p].pc = "done"
     /\ run[p].response.status = 200
     /\ run[p].writes >= 1) =>
       \A t \in repair.S : IsCandidate(tenants[t], last_run_at)

\* the step is the checkpoint write of the invocation, and the write succeeded
WritesCheckpoint(p) ==
  /\ run[p].pc = "checkpoint"
  /\ run'[p].pc = "done"
  /\ run'[p].response.status = 200

\* C33: when two invocations have read the same checkpoint and one has written
\* its new value, the write of the other does not lower the stored value (no
\* stored timestamp being ahead of the clock)
C33_OverlapKeepsLargerCheckpoint ==
  [][\A p, q \in Runs :
       (/\ p # q
        /\ WritesCheckpoint(p)
        /\ run[q].pc = "done" /\ run[q].writes >= 1
        /\ run[q].sinceISO = run[p].sinceISO
        /\ \A t \in DOMAIN tenants : MaxTs(tenants[t]) <= now) =>
          last_run_at' >= last_run_at]_vars

\* C34: an invocation that starts while sync_state holds no row for the job
\* does not answer "Error fetching checkpoint"; it goes on to the candidate
\* query with the fallback instant as its checkpoint
C34_FirstRunFallsBack ==
  \A p \in Runs :
    (last_run_at = NoCheckpointRow /\ run[p].pc # "idle") =>
      /\ run[p].response.text # "Error fetching checkpoint"
      /\ run[p].sinceISO = EPOCH_FALLBACK

LegacyCalled(op, id, res) ==
  \E c \in DOMAIN legacy.calls :
     legacy.calls[c] = [op |-> op, id |-> id, res |-> res]

LegacyProcessed(id) ==
  \E k \in DOMAIN legacy.processedTenants : legacy.processedTenants[k].id = id

\* C35: in the legacy handler a row is in processedTenants only when its
\* contact search (performed for a row with rent and a check-in year), its
\* contact upsert and its opportunity create all answered 2xx; a row with a
\* failed call is not counted, and the loop goes on to the rows after it
C35_LegacyCountsFullSuccessOnly ==
  /\ \A k \in DOMAIN legacy.processedTenants :
       LET r == legacy.processedTenants[k]
       IN  /\ LegacyCalled("upsert", r.id, "ok")
           /\ LegacyCalled("opportunity", r.id, "ok")
           /\ (Number(r.rent) > 0 /\ YearOf(r) # "") => LegacyCalled("search", r.id, "ok")
  /\ \A c \in DOMAIN legacy.calls :
       legacy.calls[c].res = "fail" => ~LegacyProcessed(legacy.calls[c].id)
  /\ legacy.pc \in {"checkpoint", "done"} =>
       \/ legacy.leases = <<>>
       \/ legacy.i = Len(legacy.leases) + 1

\* the upsert of the first row failed, the second row went through its search,
\* upsert and opportunity and is the only one counted
C35_Witness ==
  /\ legacy.pc = "done"
  /\ Len(legacy.leases) = 2
  /\ LegacyCalled("upsert", legacy.leases[1].id, "fail")
  /\ LegacyCalled("search", legacy.leases[2].id, "ok")
  /\ Len(legacy.processedTenants) = 1
  /\ legacy.processedTenants[1] = legacy.leases[2]

\* the check-in year the backfill reads off a contact: the most recent year of
\* its yearly totals, "" when it has none
BackfillYear(contact) ==
  LET years == IF contact.isArray
                 THEN UNION {DOMAIN JSONparse(contact.customFields[k].value) :
                               k \in {j \in DOMAIN contact.customFields :
                                        contact.customFields[j].id =
                                          CUSTOM_FIELD_IDS.YEARLY_RENT_TOTALS}}
                 ELSE {}
  IN  IF years = {} THEN ""
      ELSE CHOOSE y \in years : \A z \in years : YearNumbers[z] <= YearNumbers[y]

\* C36: for every check-in year, a missing year and the years after 2026
\* included, the stage the backfill script selects is the stage the core
\* stage selection gives for that year when no status rule applies
C36_BackfillStageMatchesCore ==
  Returned("determineStage") =>
    fn.result = selectStage(BackfillYear(fn.arg), "booked")

\* the remote writes of the script that began in the window of one minute
\* opening at instant t
StartedWithin(t) ==
  {k \in DOMAIN script.started : t <= script.started[k] /\ script.started[k] < t + MINUTE_MS}

\* C37: in any interval of one minute of a bulk script run, at most RATE_LIMIT
\* remote write operations are started
C37_AtMostRateLimitPerMinute ==
  \A k \in DOMAIN script.started :
    Cardinality(StartedWithin(script.started[k])) <= RATE_LIMIT

\* C38: for every raw input, normalizing the returned primary number again
\* returns that same primary and no secondary, and a second run of the phone
\* patch leaves the contact as the first run left it
C38_NormalizationIdempotent ==
  Returned("patch-phone-format") =>
    /\ fn.result.again = <<fn.result.normalized[1]>>
    /\ fn.result.second = fn.result.first

====
